---- MODULE Spec2Model ----
(***************************************************************************)
(* The CloudFormation deployment controller of scripts/deploy.py:          *)
(* process_cloudformation, handle_stack, handle_stack_set, process_stack,  *)
(* the existence probes and the three status pollers, run against a        *)
(* remote control plane whose answers are chosen nondeterministically.     *)
(***************************************************************************)
EXTENDS Integers, Sequences, FiniteSets, TLC

\* ------------------------------------------------------------------ bounds
MaxPolls == 2
MaxFaults == 1
MaxInstances == 1
MaxLines == 3
MaxMembers == 2
MaxTags == 3

\* ------------------------------------------------------- program constants
MaxTemplateBytes == 51200
PollInterval == 1
SettleDelay == 5
ThrottleBackoff == 5
ConflictBackoff == 30
ChangingDelay == 1

AdminAccount == "000"
StackAccount == "111"
OtherAccount == "999"
RootOu == "ou-root"
AllSentinel == "ALL"
NoAccount == ""
NotFound == -1
RegionLists == {<<"us-east-1">>, <<"us-east-1", "eu-west-1">>}
Regions == {"us-east-1", "eu-west-1"}
Accounts == {AdminAccount, StackAccount}

\* ------------------------------------------------------------ text matching
\* Texts are sequences of tokens; `needle in hay` of Python is containment of
\* a contiguous run of tokens.
Contains(hay, needle) ==
    \E i \in 0..(Len(hay) - Len(needle)) :
        SubSeq(hay, i + 1, i + Len(needle)) = needle

NoChangesReason == <<"The submitted information didn't contain changes", ".">>
NoUpdatesText == <<"No updates are to be performed">>
DoesNotExistText == <<"does not exist">>

\* ------------------------------------------------------------ remote errors
Error(cls, code, msg) == [cls |-> cls, code |-> code, msg |-> msg]
NoError == Error("", "", <<>>)
ErrNotExist == Error("ClientError", "ValidationError", <<"Stack with id net", "does not exist">>)
ErrValidation == Error("ClientError", "ValidationError", <<"Template format error">>)
ErrNoUpdates == Error("ClientError", "ValidationError", <<"No updates are to be performed", ".">>)
ErrSetNotFound == Error("ClientError", "StackSetNotFoundException", <<"StackSet net not found">>)
ErrThrottled == Error("ClientError", "Throttling", <<"Rate exceeded">>)
ErrInProgress == Error("ClientError", "OperationInProgressException", <<"Another Operation on StackSet net is in progress">>)
ErrAlreadyExists == Error("ClientError", "AlreadyExistsException", <<"ChangeSet already exists">>)
ErrDenied == Error("ClientError", "AccessDenied", <<"not authorized to perform sts:AssumeRole">>)
ErrWaiterThrottled == Error("WaiterError", "ThrottlingException", <<"Rate exceeded">>)
ErrWaiterFailed == Error("WaiterError", "", <<"Waiter encountered a terminal failure state">>)
ErrConnection == Error("BotoCoreError", "", <<"Could not connect to the endpoint URL">>)
ErrAttribute == Error("AttributeError", "", <<"module 'botocore.exceptions' has no attribute 'OperationInProgressException'">>)
ErrConfigNotFound == Error("Exception", "", <<"The specified CloudFormation template was not found">>)
ErrConfigTooLarge == Error("Exception", "", <<"The CloudFormation template exceeds the maximum size limit">>)

\* The errors a remote call may fail with at any time, one of each kind its
\* handlers tell apart. ErrNotExist and ErrSetNotFound are what a probe of an
\* absent entity answers, ErrDenied what a refused role assumption answers.
ProbeErrors == {ErrValidation, ErrThrottled, ErrConnection}
CallErrors == {ErrNoUpdates, ErrValidation, ErrConnection}
ReadErrors == {ErrThrottled, ErrInProgress, ErrWaiterThrottled, ErrWaiterFailed, ErrConnection}

\* isinstance(e, cls) over botocore's hierarchy: WaiterError is a BotoCoreError,
\* ClientError is not.
IsInstance(e, cls) ==
    \/ e.cls = cls
    \/ cls = "BotoCoreError" /\ e.cls = "WaiterError"

\* str(e) of a ClientError: "An error occurred (<code>) when calling ...: <message>"
Str(e) == <<"An error occurred", "(", e.code, ")", ":">> \o e.msg

\* ------------------------------------------------------------ remote statuses
terminal_states_without_active ==
    {"CREATE_COMPLETE", "ROLLBACK_COMPLETE", "UPDATE_COMPLETE",
     "UPDATE_ROLLBACK_COMPLETE", "DELETE_COMPLETE", "CURRENT"}

terminal_states_with_failed ==
    {"CREATE_COMPLETE", "ROLLBACK_COMPLETE", "UPDATE_COMPLETE",
     "UPDATE_ROLLBACK_COMPLETE", "DELETE_COMPLETE", "CURRENT", "ACTIVE",
     "CREATE_FAILED", "UPDATE_ROLLBACK_IN_PROGRESS"}

\* terminal_states of the two single-entity pollers.
terminal_states == {"CREATE_COMPLETE", "ROLLBACK_COMPLETE", "UPDATE_COMPLETE",
                    "UPDATE_ROLLBACK_COMPLETE", "DELETE_COMPLETE", "CURRENT", "ACTIVE"}
instance_terminal_states_with_outdated ==
    {"CREATE_COMPLETE", "ROLLBACK_COMPLETE", "UPDATE_COMPLETE",
     "UPDATE_ROLLBACK_COMPLETE", "DELETE_COMPLETE", "CURRENT", "OUTDATED"}

\* terminal_states of monitor_stackset_stacks_until_complete.
instance_terminal_states == {"CREATE_COMPLETE", "ROLLBACK_COMPLETE", "UPDATE_COMPLETE",
                             "UPDATE_ROLLBACK_COMPLETE", "DELETE_COMPLETE", "CURRENT"}

\* What the remote side may report next for an entity last seen in status s.
StatusSucc(s) ==
    CASE s = "CREATE_IN_PROGRESS" -> {"CREATE_IN_PROGRESS", "CREATE_COMPLETE", "CREATE_FAILED"}
      [] s = "UPDATE_IN_PROGRESS" -> {"UPDATE_IN_PROGRESS", "UPDATE_COMPLETE", "UPDATE_ROLLBACK_IN_PROGRESS"}
      [] s = "UPDATE_ROLLBACK_IN_PROGRESS" -> {"UPDATE_ROLLBACK_IN_PROGRESS", "UPDATE_ROLLBACK_COMPLETE"}
      [] s = "PENDING" -> {"PENDING", "ACTIVE"}
      [] s = "OUTDATED" -> {"OUTDATED", "CURRENT", "INOPERABLE"}
      [] OTHER -> {s}

\* The states an existing stack may be found in: its status, and whether the
\* job's template differs from what is deployed.
PresentStacks == {[status |-> "CREATE_COMPLETE", drift |-> FALSE],
                  [status |-> "CREATE_COMPLETE", drift |-> TRUE],
                  [status |-> "UPDATE_IN_PROGRESS", drift |-> TRUE]}
PresentStackSetStatuses == {"ACTIVE", "PENDING"}
InstanceStatuses == {"OUTDATED", "CURRENT"}

RECURSIVE SeqsUpTo(_, _)
SeqsUpTo(S, n) ==
    IF n = 0 THEN {<<>>}
    ELSE LET shorter == SeqsUpTo(S, n - 1)
         IN shorter \cup {Append(q, x) : q \in {p \in shorter : Len(p) = n - 1}, x \in S}

\* ------------------------------------------------------------------- jobs
Job(account, regions, except, separate, template) ==
    [account |-> account, regions |-> regions, except_account |-> except,
     separate_regions |-> separate, template |-> template]

StackJob(regions) == Job(StackAccount, regions, NoAccount, FALSE, MaxTemplateBytes)
StackSetJob(regions, except, separate) == Job(AllSentinel, regions, except, separate, MaxTemplateBytes)

StackJobs == {StackJob(rs) : rs \in RegionLists}
StackSetJobs ==
    {StackSetJob(<<"us-east-1", "eu-west-1">>, ex, FALSE) : ex \in {NoAccount, OtherAccount, AdminAccount}}
    \cup {StackSetJob(<<"us-east-1">>, NoAccount, FALSE),
          StackSetJob(<<"us-east-1", "eu-west-1">>, AdminAccount, TRUE)}
BadTemplateJobs == {Job(StackAccount, <<"us-east-1">>, NoAccount, FALSE, t) :
                    t \in {NotFound, MaxTemplateBytes + 1}}
\* A job whose template is one byte under the size limit.
SmallTemplateJobs == {Job(StackAccount, <<"us-east-1">>, NoAccount, FALSE, MaxTemplateBytes - 1)}
JobSet == StackJobs \cup StackSetJobs \cup BadTemplateJobs \cup SmallTemplateJobs

\* The job lists of a run: none, any one job, the same stack job twice, or a
\* stack job followed by a job whose template cannot be loaded.
JobLists ==
    {<<>>} \cup {<<j>> : j \in JobSet}
    \cup {<<StackJob(<<"us-east-1">>), StackJob(<<"us-east-1">>)>>}
    \cup {<<StackJob(<<"us-east-1">>), b>> : b \in BadTemplateJobs}

VARIABLES dry_run, jobs, index, pc, phase, frame, queue, ri, mon, stack_status,
          stack_statuses, polls, slept, faults, stacks, stacksets, instances, cs, trace, calls, results, err, params,
          template, resources, deploy_section, post_sam, sam_regions, event, incidents

vars == <<dry_run, jobs, index, pc, phase, frame, queue, ri, mon, stack_status,
          stack_statuses, polls, slept, faults, stacks, stacksets, instances, cs, trace, calls, results, err, params,
          template, resources, deploy_section, post_sam, sam_regions, event, incidents>>

\* ------------------------------------------------------------------ events
\* One entry of the run's history: a remote call, a sleep or a preview, with
\* the function and source line that issued it.
Ev(fn, line, op, account, region) ==
    [fn |-> fn, line |-> line, op |-> op, account |-> account, region |-> region,
     status |-> "", statuses |-> <<>>, secs |-> 0, tags |-> {}, targets |-> <<>>, name |-> <<>>,
     error |-> NoError]

Read(fn, line, op, account, region, status) ==
    [Ev(fn, line, op, account, region) EXCEPT !.status = status]

Failed(ev, e) == [ev EXCEPT !.error = e]

Sleep(fn, line, secs) ==
    [Ev(fn, line, "sleep", "", "") EXCEPT !.secs = secs]

\* A read of a poller's loop failed with e, was caught, and is tried again
\* after secs seconds.
Retried(call, e, secs) ==
    [call EXCEPT !.op = "retry", !.error = e, !.secs = secs]

\* get_client: one role assumption per client handle.
get_client(fn, line, account, region) ==
    Ev(fn, line, "assume_role", account, region)

tags_none == {}

\* tags = [{'Key': 'infra:immutable', 'Value': 'true'}]
tags == {<<"infra:immutable", "true">>}

Tagged(fn, line, op, account, region) ==
    [Ev(fn, line, op, account, region) EXCEPT !.tags = tags]

\* ------------------------------------------------------------- initial state
Unknown == [status |-> "UNKNOWN", drift |-> FALSE]
Absent == [status |-> "ABSENT", drift |-> FALSE]
UnknownInstances == [known |-> FALSE, list |-> <<>>]
NoChangeSet == [status |-> "NONE", reason |-> <<>>]
NoFrame == [account |-> "", regions |-> <<>>, main_region |-> "", except_account |-> NoAccount,
            separate_regions |-> FALSE, root_ou |-> "", admin_account_id |-> ""]
NoMonitor == [dry |-> FALSE, ret |-> <<>>, advance |-> FALSE, account |-> "", region |-> ""]

\* The template text handed to parse_template and what it returned, for the
\* runs that exercise the static preview on its own.
NoTemplate == [format |-> "text", doc |-> [top |-> "", tag |-> "", members |-> <<>>], lines |-> <<>>]
NotParsed == [parser |-> "", error |-> NoError, list |-> <<>>]

\* The tagging event handed to lambda_handler, for the runs of the incident producer.
NoEvent == [id |-> "", islist |-> TRUE, Tag |-> <<>>]

\* deploy with a CloudFormation section and no SAM section: `jobs` is that section.
Init ==
    /\ event = NoEvent
    /\ incidents = <<>>
    /\ deploy_section = "CloudFormation"
    /\ post_sam = <<>>
    /\ sam_regions = <<>>
    /\ template = NoTemplate
    /\ resources = NotParsed
    /\ dry_run \in BOOLEAN
    /\ jobs \in JobLists
    /\ index = 0
    /\ pc = "jobs"
    /\ phase = "none"
    /\ frame = NoFrame
    /\ queue = <<>>
    /\ ri = 0
    /\ mon = NoMonitor
    /\ stack_status = ""
    /\ stack_statuses = <<>>
    /\ polls = 0
    /\ slept = 0
    /\ faults = 0
    /\ stacks = [k \in Accounts \X Regions |-> Unknown]
    /\ stacksets = [r \in Regions |-> "UNKNOWN"]
    /\ instances = [r \in Regions |-> UnknownInstances]
    /\ cs = NoChangeSet
    /\ trace = <<>>
    /\ calls = <<>>
    /\ results = <<>>
    /\ err = NoError
    /\ params = [k \in {"main-region", "root-ou"} |->
                    IF k = "main-region" THEN "us-east-1" ELSE RootOu]

inputVars == <<dry_run, jobs, template, resources, deploy_section, post_sam, sam_regions,
               event, incidents>>
remoteVars == <<stacks, stacksets, instances, cs>>
jobVars == <<index, phase, frame, queue, params>>
localVars == <<ri, mon, stack_status, stack_statuses, polls, slept>>

\* The region the controller is working on.
CurRegion ==
    IF phase \in {"stack", "mirror"} /\ ri \in 1..Len(frame.regions)
    THEN frame.regions[ri] ELSE frame.main_region

Outcome(o) ==
    [index |-> index, phase |-> phase, account |-> frame.account, region |-> CurRegion,
     outcome |-> o]

\* The history. `trace` holds every event of the controller step in progress
\* (a step starts at an existence probe); `calls` holds, for the whole run, the
\* remote calls other than role assumptions, and the polls.
IsCall(ev) == ev.op \notin {"assume_role", "sleep", "retry", "print_template_resources", "print_change_set"}

Call(ev) ==
    [op |-> ev.op, fn |-> ev.fn, phase |-> phase, index |-> index,
     account |-> ev.account, region |-> ev.region, ok |-> (ev.error = NoError),
     tags |-> ev.tags, targets |-> ev.targets, name |-> ev.name]

Calls(evs) == [i \in 1..Len(SelectSeq(evs, IsCall)) |-> Call(SelectSeq(evs, IsCall)[i])]

Emit(evs) ==
    /\ trace' = trace \o evs
    /\ calls' = calls \o Calls(evs)

EmitFresh(evs) ==
    /\ trace' = evs
    /\ calls' = calls \o Calls(evs)

\* An exception leaves the controller: process_cloudformation has no handler,
\* so it ends the run.
Raise(e) ==
    /\ err' = e
    /\ pc' = "failed"
    /\ results' = Append(results, Outcome("Failed"))

Propagate(e, evs) ==
    /\ Raise(e)
    /\ Emit(evs)

\* A remote call fails with e and nothing catches it.
RaiseFault(e, evs) ==
    /\ faults < MaxFaults
    /\ faults' = faults + 1
    /\ Propagate(e, evs)
    /\ UNCHANGED <<inputVars, remoteVars, jobVars, localVars>>

\* The role assumption of get_client fails.
AssumeRoleFails(gc) == RaiseFault(ErrDenied, <<Failed(gc, ErrDenied)>>)

\* ---------------------------------------------------------- pure classifiers
read_cloudformation_template_at_or_above(bytes) ==
    IF bytes = NotFound THEN ErrConfigNotFound
    ELSE IF bytes >= MaxTemplateBytes THEN ErrConfigTooLarge
    ELSE NoError

\* read_cloudformation_template: the error it raises for a template of
\* `bytes` UTF-8 bytes (NotFound: no such file), NoError when it returns the text.
read_cloudformation_template(bytes) ==
    IF bytes = NotFound THEN ErrConfigNotFound
    ELSE IF bytes > MaxTemplateBytes THEN ErrConfigTooLarge
    ELSE NoError

does_stack_exist_inverted(e) ==
    IF e = NoError THEN "absent"
    ELSE IF IsInstance(e, "ClientError")
            /\ e.code = "ValidationError" /\ Contains(e.msg, DoesNotExistText)
         THEN "present"
         ELSE "raise"

\* does_stack_exist on the response e of describe_stacks (NoError: it answered).
does_stack_exist(e) ==
    IF e = NoError THEN "present"
    ELSE IF IsInstance(e, "ClientError")
            /\ e.code = "ValidationError" /\ Contains(e.msg, DoesNotExistText)
         THEN "absent"
         ELSE "raise"

process_stack_except_any_failure(e) ==
    IF IsInstance(e, "ClientError") /\ Contains(Str(e), NoUpdatesText) THEN "no_changes"
    ELSE IF IsInstance(e, "WaiterError") THEN "no_changes" ELSE "raise"

\* The except clause of process_stack.
process_stack_except(e) ==
    IF IsInstance(e, "ClientError") /\ Contains(Str(e), NoUpdatesText)
    THEN "no_changes" ELSE "raise"

IsNoChangesReport_exact(response) ==
    response.status = "FAILED" /\ response.reason = NoChangesReason

\* The first describe_change_set of the update path: is it the no-changes report?
IsNoChangesReport(response) ==
    response.status = "FAILED" /\ Contains(response.reason, NoChangesReason)

\* The except clauses of monitor_stack_until_complete's loop. The second clause
\* names botocore.exceptions.OperationInProgressException, which botocore does
\* not define: evaluating it for an exception that is no WaiterError raises
\* AttributeError.
monitor_stack_except(e) ==
    IF IsInstance(e, "WaiterError")
    THEN IF e.code = "ThrottlingException" THEN "retry_throttle" ELSE "raise"
    ELSE "attribute_error"

\* ---------------------------------------------------------------- remote side
ResolveStack(ent) ==
    IF ent.status = "UNKNOWN"
    THEN {Absent} \cup PresentStacks
    ELSE {ent}

\* A stack seen in status s next: a rolled-back update leaves the template's
\* changes pending again.
AdvanceStack(ent, s) ==
    [status |-> s, drift |-> IF s = "UPDATE_ROLLBACK_IN_PROGRESS" THEN TRUE ELSE ent.drift]

FullNoChangesReason == NoChangesReason \o <<"Submit different information to create a change set", ".">>

\* The statuses a change set computed for a stack may end in.
FinalChangeSets(drift) ==
    {IF drift THEN [status |-> "CREATE_COMPLETE", reason |-> <<>>]
              ELSE [status |-> "FAILED", reason |-> FullNoChangesReason],
     [status |-> "FAILED", reason |-> <<"Template error", ".">>]}

ChangeSetSucc(c, drift) ==
    IF c.status = "CREATE_PENDING" THEN {c} \cup FinalChangeSets(drift) ELSE {c}

\* ------------------------------------------------------ process_cloudformation
StackSetFrame(job, regions, main_region) ==
    [account |-> AdminAccount, regions |-> regions, main_region |-> main_region,
     except_account |-> job.except_account, separate_regions |-> job.separate_regions,
     root_ou |-> params["root-ou"], admin_account_id |-> AdminAccount]

\* The head of the job loop: read the job and its template, classify it and
\* enter the matching controller.
process_cloudformation ==
    /\ pc = "jobs"
    /\ IF index = Len(jobs)
       THEN /\ pc' = "done"
            /\ UNCHANGED <<inputVars, remoteVars, jobVars, localVars, trace, calls, results, err, faults>>
       ELSE LET job == jobs[index + 1]
                e == read_cloudformation_template(job.template)
            IN  /\ index' = index + 1
                /\ UNCHANGED <<inputVars, remoteVars, params, mon, stack_status, stack_statuses,
                               polls, slept, faults>>
                /\ IF e # NoError
                   THEN /\ err' = e
                        /\ pc' = "failed"
                        /\ results' = Append(results,
                               [index |-> index + 1, phase |-> "template", account |-> job.account,
                                region |-> "", outcome |-> "Failed"])
                        /\ trace' = <<>>
                        /\ UNCHANGED <<phase, frame, queue, ri, calls>>
                   ELSE /\ trace' = <<>>
                        /\ UNCHANGED <<err, results, calls>>
                        /\ IF job.account # AllSentinel
                           THEN /\ phase' = "stack"
                                /\ frame' = [account |-> job.account, regions |-> job.regions,
                                             main_region |-> params["main-region"],
                                             except_account |-> job.except_account,
                                             separate_regions |-> FALSE,
                                             root_ou |-> params["root-ou"],
                                             admin_account_id |-> AdminAccount]
                                /\ queue' = <<>>
                                /\ ri' = 1
                                /\ pc' = "hs_region"
                           ELSE IF ~job.separate_regions
                           THEN /\ phase' = "stackset"
                                /\ frame' = StackSetFrame(job, job.regions, params["main-region"])
                                /\ queue' = <<>>
                                /\ ri' = 0
                                /\ pc' = "hss_probe"
                           ELSE /\ phase' = "stackset"
                                /\ frame' = StackSetFrame(job, <<>>, "")
                                /\ queue' = job.regions
                                /\ ri' = 0
                                /\ pc' = "separate"

\* for region in regions: params['region'] = region; handle_stack_set(..., [region], ...)
process_cloudformation_separate ==
    /\ pc = "separate"
    /\ UNCHANGED <<inputVars, remoteVars, index, localVars, trace, calls, results, err, faults>>
    /\ IF queue = <<>>
       THEN /\ pc' = "jobs"
            /\ UNCHANGED <<phase, frame, queue, params>>
       ELSE LET region == Head(queue)
            IN  /\ params' = [k \in DOMAIN params \cup {"region"} |->
                                 IF k = "region" THEN region ELSE params[k]]
                /\ frame' = [frame EXCEPT !.regions = <<region>>, !.main_region = region]
                /\ queue' = Tail(queue)
                /\ phase' = "stackset"
                /\ pc' = "hss_probe"

AfterStackSet_always_jobs == "jobs"

\* Where handle_stack_set returns to.
AfterStackSet == IF frame.separate_regions THEN "separate" ELSE "jobs"

\* ------------------------------------------------- handle_stack / admin mirror
LoopHead == IF phase = "mirror" THEN "mirror_region" ELSE "hs_region"

StackReturn_always_polled(changing, outcome, evs, line) ==
    /\ results' = Append(results, Outcome(outcome))
    /\ UNCHANGED <<err, stack_status, stack_statuses, polls, slept>>
    /\ Emit(evs \o <<Sleep(IF phase = "mirror" THEN "handle_stack_set" ELSE "handle_stack", line, ChangingDelay)>>)
    /\ mon' = [dry |-> dry_run, ret |-> <<LoopHead>>, advance |-> TRUE,
               account |-> frame.account, region |-> CurRegion]
    /\ pc' = "ms_first"
    /\ ri' = ri

StackReturn_unpolled(changing, outcome, evs, line) ==
    /\ results' = Append(results, Outcome(outcome))
    /\ UNCHANGED <<err, stack_status, stack_statuses, polls, slept>>
    /\ Emit(evs)
    /\ mon' = mon
    /\ pc' = LoopHead
    /\ ri' = ri + 1

\* `if changing: time.sleep(1); monitor_stack_until_complete(..., dry_run, ...)`
\* after create_stack / update_stack returned `changing`, then the next region.
StackReturn(changing, outcome, evs, line) ==
    /\ results' = Append(results, Outcome(outcome))
    /\ UNCHANGED <<err, stack_status, stack_statuses, polls, slept>>
    /\ IF changing
       THEN /\ Emit(evs \o <<Sleep(IF phase = "mirror" THEN "handle_stack_set" ELSE "handle_stack", line, ChangingDelay)>>)
            /\ mon' = [dry |-> dry_run, ret |-> <<LoopHead>>, advance |-> TRUE,
                       account |-> frame.account, region |-> CurRegion]
            /\ pc' = "ms_first"
            /\ ri' = ri
       ELSE /\ Emit(evs)
            /\ mon' = mon
            /\ pc' = LoopHead
            /\ ri' = ri + 1

\* A controller step starts: the pollers' locals of the previous step are gone
\* and no change set has been requested yet.
StepStart ==
    /\ stack_status' = ""
    /\ stack_statuses' = <<>>
    /\ slept' = 0
    /\ cs' = NoChangeSet

\* The branch of handle_stack on what the existence probe answered.
pre_update_wait_follows_dry_run(d) == d

\* The dry-run argument of the wait before an update: the literal False of
\* `monitor_stack_until_complete(..., False, verbose)`, whatever dry_run is.
pre_update_wait_dry_run(d) == FALSE

ProbeBranch(e, evs, region) ==
    /\ UNCHANGED <<inputVars, jobVars, ri, polls>>
    /\ StepStart
    /\ EmitFresh(evs)
    /\ IF does_stack_exist(e) = "present"
       THEN /\ mon' = [dry |-> pre_update_wait_dry_run(dry_run), ret |-> <<"ps_change_set">>,
                       advance |-> FALSE,
                       account |-> frame.account, region |-> region]
            /\ pc' = "ms_first"
            /\ UNCHANGED <<results, err>>
       ELSE IF does_stack_exist(e) = "absent"
       THEN /\ mon' = mon
            /\ pc' = "ps_stack_create"
            /\ UNCHANGED <<results, err>>
       ELSE /\ mon' = mon
            /\ Raise(e)

\* One pass of `for region in regions`: the existence probe and the branch on it.
StackRegion(probe_account, exit_pc) ==
    IF ri > Len(frame.regions)
    THEN /\ pc' = exit_pc
         /\ UNCHANGED <<inputVars, remoteVars, jobVars, localVars, trace, calls, results, err, faults>>
    ELSE LET region == frame.regions[ri]
             k == <<probe_account, region>>
             gc == get_client("does_stack_exist", 374, probe_account, region)
             call == Ev("does_stack_exist", 377, "describe_stacks", probe_account, region)
         IN  \/ \E ent \in ResolveStack(stacks[k]) :
                  LET e == IF ent.status = "ABSENT" THEN ErrNotExist ELSE NoError
                  IN  /\ stacks' = [stacks EXCEPT ![k] = ent]
                      /\ UNCHANGED <<stacksets, instances, faults>>
                      /\ ProbeBranch(e, <<gc, Failed(call, e)>>, region)
             \/ \E e \in ProbeErrors :
                  /\ faults < MaxFaults
                  /\ faults' = faults + 1
                  /\ UNCHANGED <<stacks, stacksets, instances>>
                  /\ ProbeBranch(e, <<gc, Failed(call, e)>>, region)

handle_stack ==
    /\ pc = "hs_region"
    /\ StackRegion(frame.account, "jobs")

\* ------------------------------------------------------ process_stack, stacks
\* `if dry_run: return False`: the exits of process_stack and of
\* create_stack_set_instances taken before a mutating call.
DryRunStopsNever == FALSE

DryRunStops == dry_run

\* What process_stack does with a ClientError or other exception e raised by
\* the call that logged evs: the no-updates text ends it as NoChanges,
\* anything else leaves it.
StackCallFails(e, evs, line) ==
    /\ faults < MaxFaults
    /\ faults' = faults + 1
    /\ UNCHANGED <<inputVars, remoteVars, jobVars>>
    /\ IF process_stack_except(e) = "no_changes"
       THEN StackReturn(FALSE, "NoChanges", evs, line)
       ELSE /\ Propagate(e, evs)
            /\ UNCHANGED localVars

\* process_stack('create', 'stack', ...): preview, then create_stack unless dry-run.
process_stack_create ==
    /\ pc = "ps_stack_create"
    /\ LET a == frame.account
           r == CurRegion
           line == IF phase = "mirror" THEN 1036 ELSE 991
           gc == get_client("process_stack", 442, a, r)
           preview == Ev("process_stack", 452, "print_template_resources", a, r)
           call == Tagged("process_stack", 458, "create_stack", a, r)
       IN  \/ AssumeRoleFails(gc)
           \/ /\ DryRunStops
              /\ StackReturn(FALSE, "SkippedDryRun", <<gc, preview>>, line)
              /\ UNCHANGED <<inputVars, remoteVars, jobVars, faults>>
           \/ /\ ~DryRunStops
              /\ stacks' = [stacks EXCEPT ![<<a, r>>] = [status |-> "CREATE_IN_PROGRESS", drift |-> FALSE]]
              /\ StackReturn(TRUE, "Created", <<gc, preview, call>>, line)
              /\ UNCHANGED <<inputVars, stacksets, instances, cs, jobVars, faults>>
           \/ /\ ~DryRunStops
              /\ \E e \in CallErrors : StackCallFails(e, <<gc, preview, Failed(call, e)>>, line)

\* change_set_name = 'ChangeSet-' + str(int(time.time())), t the whole seconds
\* on the clock since the run's first change-set request.
change_set_name(t) == <<"ChangeSet-", t>>

\* The change-set requests of the run so far, as positions in `calls`.
ChangeSetRequests == {i \in 1..Len(calls) : calls[i].op = "create_change_set"}

\* Nothing has slept since call i: only reads lie between it and now, and
\* every poll of the step in progress returned on its first read.
NoSleepSince(i) ==
    /\ \A j \in (i + 1)..Len(calls) :
          calls[j].op \in {"describe_change_set", "wait_change_set", "describe_stacks", "poll"}
    /\ \A k \in 1..Len(trace) :
          /\ trace[k].op \notin {"sleep", "retry"}
          /\ trace[k].op = "poll" => trace[k].line = 735

\* What int(time.time()) may return at the change-set request: the clock is
\* in the second of the previous request or in a later one, and in a later
\* one whenever the run has slept in between.
ChangeSetTimes ==
    IF ChangeSetRequests = {} THEN {0}
    ELSE LET i == CHOOSE i \in ChangeSetRequests : \A j \in ChangeSetRequests : j <= i
             t == calls[i].name[2]
         IN  IF NoSleepSince(i) THEN {t, t + 1} ELSE {t + 1}

\* The stack (account a, region r) already has a change set called name: the
\* remote side keeps every change set that was computed and not executed.
NameTaken(a, r, name) ==
    \E i \in ChangeSetRequests :
        /\ calls[i].ok
        /\ calls[i].account = a
        /\ calls[i].region = r
        /\ calls[i].name = name

\* process_stack('update', 'stack', ...): the change-set computation request.
process_stack_create_change_set ==
    /\ pc = "ps_change_set"
    /\ \E t \in ChangeSetTimes :
         LET a == frame.account
             r == CurRegion
             line == IF phase = "mirror" THEN 1029 ELSE 984
             gc == get_client("process_stack", 442, a, r)
             call == [Tagged("process_stack", 468, "create_change_set", a, r)
                        EXCEPT !.name = change_set_name(t)]
         IN  \/ AssumeRoleFails(gc)
             \/ /\ ~NameTaken(a, r, call.name)
                /\ cs' = [status |-> "CREATE_PENDING", reason |-> <<>>]
                /\ pc' = "ps_describe"
                /\ Emit(<<gc, call>>)
                /\ UNCHANGED <<inputVars, stacks, stacksets, instances, jobVars, localVars,
                               results, err, faults>>
             \/ /\ NameTaken(a, r, call.name)
                /\ UNCHANGED <<inputVars, remoteVars, jobVars, faults>>
                /\ IF process_stack_except(ErrAlreadyExists) = "no_changes"
                   THEN StackReturn(FALSE, "NoChanges", <<gc, Failed(call, ErrAlreadyExists)>>, line)
                   ELSE /\ Propagate(ErrAlreadyExists, <<gc, Failed(call, ErrAlreadyExists)>>)
                        /\ UNCHANGED localVars
             \/ \E e \in CallErrors : StackCallFails(e, <<gc, Failed(call, e)>>, line)

\* The describe_change_set issued right after the request.
process_stack_describe_change_set ==
    /\ pc = "ps_describe"
    /\ LET a == frame.account
           r == CurRegion
           line == IF phase = "mirror" THEN 1029 ELSE 984
           call == Ev("process_stack", 476, "describe_change_set", a, r)
       IN  \/ \E response \in ChangeSetSucc(cs, stacks[<<a, r>>].drift) :
                /\ cs' = response
                /\ UNCHANGED <<inputVars, stacks, stacksets, instances, jobVars, faults>>
                /\ IF IsNoChangesReport(response)
                   THEN StackReturn(FALSE, "NoChanges", <<[call EXCEPT !.status = response.status]>>, line)
                   ELSE /\ pc' = "ps_wait"
                        /\ Emit(<<[call EXCEPT !.status = response.status]>>)
                        /\ UNCHANGED <<localVars, results, err>>
           \/ \E e \in CallErrors : StackCallFails(e, <<Failed(call, e)>>, line)

change_set_create_complete_on_any_status(c) == c.status # "CREATE_PENDING"

\* The state of a change set on which the waiter change_set_create_complete
\* returns.
change_set_create_complete(c) == c.status = "CREATE_COMPLETE"

\* waiter change_set_create_complete: returns once the change set is
\* CREATE_COMPLETE, raises WaiterError once it is FAILED.
process_stack_wait_change_set ==
    /\ pc = "ps_wait"
    /\ LET a == frame.account
           r == CurRegion
           line == IF phase = "mirror" THEN 1029 ELSE 984
           call == Ev("process_stack", 487, "wait_change_set", a, r)
           finals == IF cs.status = "CREATE_PENDING"
                     THEN FinalChangeSets(stacks[<<a, r>>].drift) ELSE {cs}
       IN  \/ \E final \in finals :
                /\ cs' = final
                /\ UNCHANGED <<inputVars, stacks, stacksets, instances, jobVars, faults>>
                /\ IF change_set_create_complete(final)
                   THEN /\ pc' = "ps_describe2"
                        /\ Emit(<<[call EXCEPT !.status = final.status]>>)
                        /\ UNCHANGED <<localVars, results, err>>
                   ELSE IF process_stack_except(ErrWaiterFailed) = "no_changes"
                   THEN StackReturn(FALSE, "NoChanges",
                                    <<Failed([call EXCEPT !.status = final.status], ErrWaiterFailed)>>, line)
                   ELSE /\ Propagate(ErrWaiterFailed,
                                     <<Failed([call EXCEPT !.status = final.status], ErrWaiterFailed)>>)
                        /\ UNCHANGED localVars
           \/ \E e \in CallErrors : StackCallFails(e, <<Failed(call, e)>>, line)

\* The second describe_change_set, print_change_set, and the dry-run exit.
process_stack_print_change_set ==
    /\ pc = "ps_describe2"
    /\ LET a == frame.account
           r == CurRegion
           line == IF phase = "mirror" THEN 1029 ELSE 984
           call == Read("process_stack", 492, "describe_change_set", a, r, cs.status)
           print == Read("process_stack", 496, "print_change_set", a, r, cs.status)
       IN  \/ /\ DryRunStops
              /\ StackReturn(FALSE, "SkippedDryRun", <<call, print>>, line)
              /\ UNCHANGED <<inputVars, remoteVars, jobVars, faults>>
           \/ /\ ~DryRunStops
              /\ pc' = "ps_execute"
              /\ Emit(<<call, print>>)
              /\ UNCHANGED <<inputVars, remoteVars, jobVars, localVars, results, err, faults>>
           \/ \E e \in CallErrors : StackCallFails(e, <<Failed(call, e)>>, line)

\* execute_change_set; its response is what process_stack returns.
process_stack_execute_change_set ==
    /\ pc = "ps_execute"
    /\ LET a == frame.account
           r == CurRegion
           line == IF phase = "mirror" THEN 1029 ELSE 984
           call == Ev("process_stack", 503, "execute_change_set", a, r)
       IN  \/ /\ stacks' = [stacks EXCEPT ![<<a, r>>] = [status |-> "UPDATE_IN_PROGRESS", drift |-> FALSE]]
              /\ cs' = [cs EXCEPT !.status = "EXECUTE_COMPLETE"]
              /\ StackReturn(TRUE, "Updated", <<call>>, line)
              /\ UNCHANGED <<inputVars, stacksets, instances, jobVars, faults>>
           \/ \E e \in CallErrors : StackCallFails(e, <<Failed(call, e)>>, line)

\* --------------------------------------------- monitor_stack_until_complete
\* A poller returns to its caller. The history keeps one entry per poll: the
\* line it returned from (the early return or the loop's break) and the last
\* status it read; `slept` is the time.sleep its latest pass ended with.
MonitorReturn(fn, line, status) ==
    /\ pc' = Head(mon.ret)
    /\ mon' = [mon EXCEPT !.ret = Tail(@)]
    /\ ri' = IF mon.advance THEN ri + 1 ELSE ri
    /\ Emit(<<Read(fn, line, "poll", mon.account, mon.region, status)>>)

MonitorStay(p) ==
    /\ pc' = p
    /\ UNCHANGED <<mon, ri, trace, calls>>

\* `if dry_run: return` of the three pollers.
MonitorSkipped ==
    /\ mon.dry
    /\ pc' = Head(mon.ret)
    /\ mon' = [mon EXCEPT !.ret = Tail(@)]
    /\ ri' = IF mon.advance THEN ri + 1 ELSE ri
    /\ UNCHANGED <<inputVars, remoteVars, jobVars, stack_status, stack_statuses, polls, slept,
                   trace, calls, results, err, faults>>

\* `if dry_run: return`, the client, the first read and `return` on a
\* terminal status.
monitor_stack_until_complete ==
    /\ pc = "ms_first"
    /\ LET a == mon.account
           r == mon.region
           fn == "monitor_stack_until_complete"
           gc == get_client(fn, 724, a, r)
           call == Ev(fn, 730, "describe_stacks", a, r)
       IN  \/ MonitorSkipped
           \/ /\ ~mon.dry
              /\ AssumeRoleFails(gc)
           \/ /\ ~mon.dry
              /\ \E e \in ReadErrors : RaiseFault(e, <<Failed(call, e)>>)
           \/ /\ ~mon.dry
              /\ \E s \in StatusSucc(stacks[<<a, r>>].status) :
                   /\ stacks' = [stacks EXCEPT ![<<a, r>>] = AdvanceStack(@, s)]
                   /\ stack_status' = s
                   /\ polls' = 0
                   /\ slept' = 0
                   /\ UNCHANGED <<inputVars, stacksets, instances, cs, jobVars, stack_statuses,
                                  results, err, faults>>
                   /\ IF s \in terminal_states
                      THEN MonitorReturn(fn, 735, s)
                      ELSE MonitorStay("ms_loop")

\* One pass of `while True`: read, then leave after the settle delay on a
\* terminal status, or sleep and read again.
monitor_stack_until_complete_loop ==
    /\ pc = "ms_loop"
    /\ LET a == mon.account
           r == mon.region
           fn == "monitor_stack_until_complete"
           call == Ev(fn, 742, "describe_stacks", a, r)
       IN  \/ \E s \in StatusSucc(stacks[<<a, r>>].status) :
                /\ stacks' = [stacks EXCEPT ![<<a, r>>] = AdvanceStack(@, s)]
                /\ stack_status' = s
                /\ UNCHANGED <<inputVars, stacksets, instances, cs, jobVars, stack_statuses,
                               results, err, faults>>
                /\ IF s \in terminal_states
                   THEN /\ slept' = SettleDelay
                        /\ polls' = 0
                        /\ MonitorReturn(fn, 757, s)
                   ELSE /\ polls < MaxPolls
                        /\ polls' = polls + 1
                        /\ slept' = PollInterval
                        /\ MonitorStay("ms_loop")
           \/ \E e \in ReadErrors :
                /\ faults < MaxFaults
                /\ faults' = faults + 1
                /\ UNCHANGED <<inputVars, remoteVars, jobVars, ri, mon, stack_status,
                               stack_statuses, polls>>
                /\ IF monitor_stack_except(e) = "retry_throttle"
                   THEN /\ slept' = ThrottleBackoff
                        /\ Emit(<<Retried(call, e, ThrottleBackoff)>>)
                        /\ UNCHANGED <<pc, results, err>>
                   ELSE /\ slept' = slept
                        /\ IF monitor_stack_except(e) = "raise"
                           THEN Propagate(e, <<Failed(call, e)>>)
                           ELSE Propagate(ErrAttribute, <<Failed(call, e)>>)

\* ------------------------------------------- monitor_stackset_until_complete
\* The except clauses of monitor_stackset_until_complete's loop (and of
\* monitor_stackset_stacks_until_complete's).
monitor_stackset_except(e) ==
    IF IsInstance(e, "WaiterError")
    THEN IF e.code = "ThrottlingException" THEN "retry_throttle" ELSE "raise"
    ELSE IF IsInstance(e, "BotoCoreError") THEN "retry_conflict" ELSE "raise"

\* A failed read inside the loop of one of the two stackset pollers.
StackSetReadFails(e, call) ==
    /\ faults < MaxFaults
    /\ faults' = faults + 1
    /\ UNCHANGED <<inputVars, remoteVars, jobVars, ri, mon, stack_status, stack_statuses, polls>>
    /\ IF monitor_stackset_except(e) = "retry_throttle"
       THEN /\ slept' = ThrottleBackoff
            /\ Emit(<<Retried(call, e, ThrottleBackoff)>>)
            /\ UNCHANGED <<pc, results, err>>
       ELSE IF monitor_stackset_except(e) = "retry_conflict"
       THEN /\ slept' = ConflictBackoff
            /\ Emit(<<Retried(call, e, ConflictBackoff)>>)
            /\ UNCHANGED <<pc, results, err>>
       ELSE /\ slept' = slept
            /\ Propagate(e, <<Failed(call, e)>>)

\* describe_stack_set of a stackset that does not exist fails.
StackSetGone(call) ==
    /\ stacksets[mon.region] = "ABSENT"
    /\ Propagate(ErrSetNotFound, <<Failed(call, ErrSetNotFound)>>)
    /\ UNCHANGED <<inputVars, remoteVars, jobVars, localVars, faults>>

monitor_stackset_until_complete ==
    /\ pc = "mss_first"
    /\ LET a == mon.account
           r == mon.region
           fn == "monitor_stackset_until_complete"
           gc == get_client(fn, 791, a, r)
           call == Ev(fn, 797, "describe_stack_set", a, r)
       IN  \/ MonitorSkipped
           \/ /\ ~mon.dry
              /\ AssumeRoleFails(gc)
           \/ /\ ~mon.dry
              /\ \E e \in ReadErrors : RaiseFault(e, <<Failed(call, e)>>)
           \/ /\ ~mon.dry
              /\ StackSetGone(call)
           \/ /\ ~mon.dry
              /\ stacksets[r] # "ABSENT"
              /\ \E s \in StatusSucc(stacksets[r]) :
                   /\ stacksets' = [stacksets EXCEPT ![r] = s]
                   /\ stack_status' = s
                   /\ polls' = 0
                   /\ slept' = 0
                   /\ UNCHANGED <<inputVars, stacks, instances, cs, jobVars, stack_statuses,
                                  results, err, faults>>
                   /\ IF s \in terminal_states
                      THEN MonitorReturn(fn, 802, s)
                      ELSE MonitorStay("mss_loop")

monitor_stackset_until_complete_loop ==
    /\ pc = "mss_loop"
    /\ LET a == mon.account
           r == mon.region
           fn == "monitor_stackset_until_complete"
           call == Ev(fn, 809, "describe_stack_set", a, r)
       IN  \/ \E s \in StatusSucc(stacksets[r]) :
                /\ stacksets' = [stacksets EXCEPT ![r] = s]
                /\ stack_status' = s
                /\ UNCHANGED <<inputVars, stacks, instances, cs, jobVars, stack_statuses,
                               results, err, faults>>
                /\ IF s \in terminal_states
                   THEN /\ slept' = SettleDelay
                        /\ polls' = 0
                        /\ MonitorReturn(fn, 824, s)
                   ELSE /\ polls < MaxPolls
                        /\ polls' = polls + 1
                        /\ slept' = PollInterval
                        /\ MonitorStay("mss_loop")
           \/ \E e \in ReadErrors : StackSetReadFails(e, call)

\* ------------------------------------ monitor_stackset_stacks_until_complete
ResolveInstances(inst) ==
    IF inst.known THEN {inst}
    ELSE {[known |-> TRUE, list |-> l] : l \in SeqsUpTo(InstanceStatuses, MaxInstances)}

\* What list_stack_instances may report next for instances last seen as `list`.
InstancesSucc(list) ==
    {l \in [1..Len(list) -> {"OUTDATED", "CURRENT", "INOPERABLE"}] :
        \A i \in 1..Len(list) : l[i] \in StatusSucc(list[i])}

AllTerminal_of_some(statuses) ==
    /\ statuses # <<>>
    /\ \A i \in 1..Len(statuses) : statuses[i] \in instance_terminal_states

\* `all(status in terminal_states for status in stack_statuses)`
AllTerminal(statuses) ==
    \A i \in 1..Len(statuses) : statuses[i] \in instance_terminal_states

ListRead(fn, line, account, region, statuses) ==
    [Ev(fn, line, "poll", account, region) EXCEPT !.statuses = statuses]

InstancesReturn(fn, line, statuses) ==
    /\ pc' = Head(mon.ret)
    /\ mon' = [mon EXCEPT !.ret = Tail(@)]
    /\ ri' = IF mon.advance THEN ri + 1 ELSE ri
    /\ Emit(<<ListRead(fn, line, mon.account, mon.region, statuses)>>)

monitor_stackset_stacks_until_complete ==
    /\ pc = "msi_first"
    /\ LET a == mon.account
           r == mon.region
           fn == "monitor_stackset_stacks_until_complete"
           gc == get_client(fn, 859, a, r)
           call == Ev(fn, 865, "list_stack_instances", a, r)
       IN  \/ MonitorSkipped
           \/ /\ ~mon.dry
              /\ AssumeRoleFails(gc)
           \/ /\ ~mon.dry
              /\ \E e \in ReadErrors : RaiseFault(e, <<Failed(call, e)>>)
           \/ /\ ~mon.dry
              /\ \E inst \in ResolveInstances(instances[r]) : \E l \in InstancesSucc(inst.list) :
                   /\ instances' = [instances EXCEPT ![r] = [known |-> TRUE, list |-> l]]
                   /\ stack_statuses' = l
                   /\ polls' = 0
                   /\ slept' = 0
                   /\ UNCHANGED <<inputVars, stacks, stacksets, cs, jobVars, stack_status,
                                  results, err, faults>>
                   /\ IF AllTerminal(l)
                      THEN InstancesReturn(fn, 870, l)
                      ELSE MonitorStay("msi_loop")

monitor_stackset_stacks_until_complete_loop ==
    /\ pc = "msi_loop"
    /\ LET a == mon.account
           r == mon.region
           fn == "monitor_stackset_stacks_until_complete"
           call == Ev(fn, 877, "list_stack_instances", a, r)
       IN  \/ \E l \in InstancesSucc(instances[r].list) :
                /\ instances' = [instances EXCEPT ![r] = [known |-> TRUE, list |-> l]]
                /\ stack_statuses' = l
                /\ UNCHANGED <<inputVars, stacks, stacksets, cs, jobVars, stack_status,
                               results, err, faults>>
                /\ IF ~AllTerminal(l)
                   THEN /\ polls < MaxPolls
                        /\ polls' = polls + 1
                        /\ slept' = PollInterval
                        /\ MonitorStay("msi_loop")
                   ELSE /\ slept' = SettleDelay
                        /\ polls' = 0
                        /\ InstancesReturn(fn, 901, l)
           \/ \E e \in ReadErrors : StackSetReadFails(e, call)

\* ------------------------------------------------- process_stack, stacksets
does_stackset_exist_any_client_error(e) ==
    IF e = NoError THEN "present"
    ELSE IF IsInstance(e, "ClientError") THEN "absent" ELSE "raise"

\* does_stackset_exist on the response e of describe_stack_set.
does_stackset_exist(e) ==
    IF e = NoError THEN "present"
    ELSE IF IsInstance(e, "ClientError") /\ e.code = "StackSetNotFoundException"
         THEN "absent"
         ELSE "raise"

ResolveStackSet(s) ==
    IF s = "UNKNOWN" THEN {"ABSENT"} \cup PresentStackSetStatuses ELSE {s}

StackSetProbeBranch(e, evs) ==
    /\ UNCHANGED <<inputVars, jobVars, ri, polls>>
    /\ StepStart
    /\ EmitFresh(evs)
    /\ IF does_stackset_exist(e) = "present"
       THEN /\ mon' = [dry |-> FALSE, ret |-> <<"msi_first", "ps_update_stack_set">>,
                       advance |-> FALSE, account |-> frame.account, region |-> frame.main_region]
            /\ pc' = "mss_first"
            /\ UNCHANGED <<results, err>>
       ELSE IF does_stackset_exist(e) = "absent"
       THEN /\ mon' = mon
            /\ pc' = "ps_create_stack_set"
            /\ UNCHANGED <<results, err>>
       ELSE /\ mon' = mon
            /\ Raise(e)

\* handle_stack_set up to the branch on does_stackset_exist.
handle_stack_set ==
    /\ pc = "hss_probe"
    /\ LET a == frame.account
           r == frame.main_region
           gc == get_client("does_stackset_exist", 392, a, r)
           call == Ev("does_stackset_exist", 395, "describe_stack_set", a, r)
       IN  \/ \E s \in ResolveStackSet(stacksets[r]) :
                LET e == IF s = "ABSENT" THEN ErrSetNotFound ELSE NoError
                IN  /\ stacksets' = [stacksets EXCEPT ![r] = s]
                    /\ UNCHANGED <<stacks, instances, faults>>
                    /\ StackSetProbeBranch(e, <<gc, Failed(call, e)>>)
           \/ \E e \in ProbeErrors :
                /\ faults < MaxFaults
                /\ faults' = faults + 1
                /\ UNCHANGED <<stacks, stacksets, instances>>
                /\ StackSetProbeBranch(e, <<gc, Failed(call, e)>>)

\* update_stack_set returned `changing`:
\* `if changing: time.sleep(1); monitor_stackset_until_complete(..., dry_run, ...)`
UpdateStackSetReturn(changing, outcome, evs) ==
    /\ results' = Append(results, Outcome(outcome))
    /\ UNCHANGED <<err, ri, stack_status, stack_statuses, polls, slept>>
    /\ IF changing
       THEN /\ Emit(evs \o <<Sleep("handle_stack_set", 1007, ChangingDelay)>>)
            /\ mon' = [dry |-> dry_run, ret |-> <<"hss_mirror">>, advance |-> FALSE,
                       account |-> frame.account, region |-> frame.main_region]
            /\ pc' = "mss_first"
       ELSE /\ Emit(evs)
            /\ mon' = mon
            /\ pc' = "hss_mirror"

\* process_stack('update', 'stackset', ...)
process_stack_update_stack_set ==
    /\ pc = "ps_update_stack_set"
    /\ LET a == frame.account
           r == frame.main_region
           gc == get_client("process_stack", 442, a, r)
           call == Tagged("process_stack", 514, "update_stack_set", a, r)
       IN  \/ AssumeRoleFails(gc)
           \/ /\ DryRunStops
              /\ UpdateStackSetReturn(FALSE, "SkippedDryRun", <<gc>>)
              /\ UNCHANGED <<inputVars, remoteVars, jobVars, faults>>
           \/ /\ ~DryRunStops
              /\ \E s \in PresentStackSetStatuses :
                   stacksets' = [stacksets EXCEPT ![r] = s]
              /\ instances' = [instances EXCEPT ![r] =
                                  [known |-> TRUE, list |-> [i \in 1..Len(@.list) |-> "OUTDATED"]]]
              /\ UpdateStackSetReturn(TRUE, "Updated", <<gc, call>>)
              /\ UNCHANGED <<inputVars, stacks, cs, jobVars, faults>>
           \/ /\ ~DryRunStops
              /\ \E e \in CallErrors :
                   /\ faults < MaxFaults
                   /\ faults' = faults + 1
                   /\ UNCHANGED <<inputVars, remoteVars, jobVars>>
                   /\ IF process_stack_except(e) = "no_changes"
                      THEN UpdateStackSetReturn(FALSE, "NoChanges", <<gc, Failed(call, e)>>)
                      ELSE /\ Propagate(e, <<gc, Failed(call, e)>>)
                           /\ UNCHANGED localVars

CreateStackSetReturn_unmonitored(outcome, evs) ==
    /\ results' = Append(results, Outcome(outcome))
    /\ Emit(evs)
    /\ mon' = mon
    /\ pc' = "create_instances"
    /\ UNCHANGED <<err, ri, stack_status, stack_statuses, polls, slept>>

\* create_stack_set's result is not looked at:
\* monitor_stackset_until_complete(..., dry_run, ...) follows in every case.
CreateStackSetReturn(outcome, evs) ==
    /\ results' = Append(results, Outcome(outcome))
    /\ Emit(evs)
    /\ mon' = [dry |-> dry_run, ret |-> <<"create_instances">>, advance |-> FALSE,
               account |-> frame.account, region |-> frame.main_region]
    /\ pc' = "mss_first"
    /\ UNCHANGED <<err, ri, stack_status, stack_statuses, polls, slept>>

\* process_stack('create', 'stackset', ...)
process_stack_create_stack_set ==
    /\ pc = "ps_create_stack_set"
    /\ LET a == frame.account
           r == frame.main_region
           gc == get_client("process_stack", 442, a, r)
           call == Tagged("process_stack", 512, "create_stack_set", a, r)
       IN  \/ AssumeRoleFails(gc)
           \/ /\ DryRunStops
              /\ CreateStackSetReturn("SkippedDryRun", <<gc>>)
              /\ UNCHANGED <<inputVars, remoteVars, jobVars, faults>>
           \/ /\ ~DryRunStops
              /\ \E s \in PresentStackSetStatuses :
                   stacksets' = [stacksets EXCEPT ![r] = s]
              /\ instances' = [instances EXCEPT ![r] = [known |-> TRUE, list |-> <<>>]]
              /\ CreateStackSetReturn("Created", <<gc, call>>)
              /\ UNCHANGED <<inputVars, stacks, cs, jobVars, faults>>
           \/ /\ ~DryRunStops
              /\ \E e \in CallErrors :
                   /\ faults < MaxFaults
                   /\ faults' = faults + 1
                   /\ UNCHANGED <<inputVars, remoteVars, jobVars>>
                   /\ IF process_stack_except(e) = "no_changes"
                      THEN CreateStackSetReturn("NoChanges", <<gc, Failed(call, e)>>)
                      ELSE /\ Propagate(e, <<gc, Failed(call, e)>>)
                           /\ UNCHANGED localVars

\* ------------------------------------------------ create_stack_set_instances
deployment_targets_intersection(root_ou, except_account) ==
    IF except_account # NoAccount
    THEN [k \in {"OrganizationalUnitIds", "Accounts", "AccountFilterType"} |->
             IF k = "OrganizationalUnitIds" THEN <<root_ou>>
             ELSE IF k = "Accounts" THEN <<except_account>>
             ELSE "INTERSECTION"]
    ELSE [k \in {"OrganizationalUnitIds"} |-> <<root_ou>>]

\* The DeploymentTargets argument built from root_ou and except_account.
deployment_targets(root_ou, except_account) ==
    IF except_account # NoAccount
    THEN [k \in {"OrganizationalUnitIds", "Accounts", "AccountFilterType"} |->
             IF k = "OrganizationalUnitIds" THEN <<root_ou>>
             ELSE IF k = "Accounts" THEN <<except_account>>
             ELSE "DIFFERENCE"]
    ELSE [k \in {"OrganizationalUnitIds"} |-> <<root_ou>>]

create_stack_set_instances ==
    /\ pc = "create_instances"
    /\ LET a == frame.account
           r == frame.main_region
           gc == get_client("create_stack_set_instances", 672, a, r)
           call == [Ev("create_stack_set_instances", 697, "create_stack_instances", a, r)
                        EXCEPT !.targets = deployment_targets(frame.root_ou, frame.except_account),
                               !.statuses = frame.regions]
           next == [dry |-> dry_run, ret |-> <<"hss_mirror">>, advance |-> FALSE,
                    account |-> a, region |-> r]
       IN  \/ /\ DryRunStops
              /\ mon' = next
              /\ pc' = "msi_first"
              /\ UNCHANGED <<inputVars, remoteVars, jobVars, ri, stack_status, stack_statuses,
                             polls, slept, trace, calls, results, err, faults>>
           \/ /\ ~DryRunStops
              /\ AssumeRoleFails(gc)
           \/ /\ ~DryRunStops
              /\ \E n \in 0..MaxInstances :
                   instances' = [instances EXCEPT ![r] =
                                    [known |-> TRUE, list |-> [i \in 1..n |-> "OUTDATED"]]]
              /\ mon' = next
              /\ pc' = "msi_first"
              /\ Emit(<<gc, call>>)
              /\ results' = Append(results, Outcome("InstancesCreated"))
              /\ UNCHANGED <<inputVars, stacks, stacksets, cs, jobVars, ri, stack_status,
                             stack_statuses, polls, slept, err, faults>>
           \/ /\ ~DryRunStops
              /\ \E e \in CallErrors : RaiseFault(e, <<gc, Failed(call, e)>>)

\* ------------------------------------------------ handle_stack_set, mirroring
mirror_skipped_for_any_exception(except_account, admin_account_id) ==
    except_account # NoAccount

\* `if except_account == admin_account_id: return`
mirror_skipped(except_account, admin_account_id) ==
    except_account = admin_account_id

\* The check above, else the admin-account loop.
handle_stack_set_mirror_check ==
    /\ pc = "hss_mirror"
    /\ UNCHANGED <<inputVars, remoteVars, index, frame, queue, params, mon, stack_status,
                   stack_statuses, polls, slept, trace, calls, results, err, faults>>
    /\ IF mirror_skipped(frame.except_account, frame.admin_account_id)
       THEN /\ pc' = AfterStackSet
            /\ UNCHANGED <<phase, ri>>
       ELSE /\ pc' = "mirror_region"
            /\ phase' = "mirror"
            /\ ri' = 1

handle_stack_set_mirror ==
    /\ pc = "mirror_region"
    /\ StackRegion(frame.admin_account_id, AfterStackSet)

NextStack ==
    \/ process_cloudformation
    \/ handle_stack
    \/ process_stack_create
    \/ process_stack_create_change_set
    \/ process_stack_describe_change_set
    \/ process_stack_wait_change_set
    \/ process_stack_print_change_set
    \/ process_stack_execute_change_set
    \/ monitor_stack_until_complete
    \/ monitor_stack_until_complete_loop

Next ==
    \/ NextStack
    \/ process_cloudformation_separate
    \/ handle_stack_set
    \/ monitor_stackset_until_complete
    \/ monitor_stackset_until_complete_loop
    \/ monitor_stackset_stacks_until_complete
    \/ monitor_stackset_stacks_until_complete_loop
    \/ process_stack_update_stack_set
    \/ process_stack_create_stack_set
    \/ create_stack_set_instances
    \/ handle_stack_set_mirror_check
    \/ handle_stack_set_mirror

Spec == Init /\ [][Next]_vars

\* --------------------------------------------------- the polls, run to the end
\* The single-entity pollers: `while True:` with a sleep and a read in each
\* pass, in the one thread of the program, so a pass that can be made is made.
SinglePoll ==
    \/ monitor_stack_until_complete
    \/ monitor_stack_until_complete_loop
    \/ monitor_stackset_until_complete
    \/ monitor_stackset_until_complete_loop

\* No read of a single-entity poller, and no role assumption for one, fails.
NoReadErrors ==
    pc \in {"ms_first", "ms_loop", "mss_first", "mss_loop"} =>
        (faults' = faults /\ pc' # "failed")

PollNext ==
    \/ SinglePoll /\ NoReadErrors
    \/ process_cloudformation
    \/ handle_stack
    \/ process_stack_create
    \/ process_stack_create_change_set
    \/ process_stack_describe_change_set
    \/ process_stack_wait_change_set
    \/ process_stack_print_change_set
    \/ process_stack_execute_change_set
    \/ process_cloudformation_separate
    \/ handle_stack_set
    \/ monitor_stackset_stacks_until_complete
    \/ monitor_stackset_stacks_until_complete_loop
    \/ process_stack_update_stack_set
    \/ process_stack_create_stack_set
    \/ create_stack_set_instances
    \/ handle_stack_set_mirror_check
    \/ handle_stack_set_mirror

PollSpec == Init /\ [][PollNext]_vars /\ WF_vars(SinglePoll /\ NoReadErrors)

\* ------------------------------------------------------ deploy with a SAM section
\* deploy when the configuration has a SAM section: the pre-SAM CloudFormation
\* jobs (`jobs` at the start), process_sam over sam_regions, then the post-SAM
\* CloudFormation jobs (post_sam). `deploy_section` is the call of deploy in progress.
SamProfile == "sam-profile"
ErrCalledProcess == Error("CalledProcessError", "", <<"returned non-zero exit status 1">>)

\* The CloudFormation sections a deploy may have around its SAM section.
PreSamLists == {<<>>, <<StackJob(<<"us-east-1">>)>>,
                <<Job(StackAccount, <<"us-east-1">>, NoAccount, FALSE, NotFound)>>}
PostSamLists == {<<>>, <<StackJob(<<"us-east-1">>)>>,
                 <<StackSetJob(<<"us-east-1">>, NoAccount, FALSE)>>,
                 <<StackSetJob(<<"us-east-1", "eu-west-1">>, AdminAccount, TRUE)>>}

\* The failures of these runs are those of the commands of process_sam and of
\* a template that cannot be read; the remote calls of the CloudFormation jobs
\* fail in the runs of Spec.
NoRemoteFaults == MaxFaults

\* sam['regions'] after dereference: two regions, so that a failure in the
\* first leaves one to be skipped.
SamRegionLists == {<<"us-east-1", "eu-west-1">>}

DeployInit ==
    /\ event = NoEvent
    /\ incidents = <<>>
    /\ deploy_section = "pre-SAM"
    /\ post_sam \in PostSamLists
    /\ sam_regions \in SamRegionLists
    /\ template = NoTemplate
    /\ resources = NotParsed
    /\ dry_run \in BOOLEAN
    /\ jobs \in PreSamLists
    /\ index = 0
    /\ pc = "jobs"
    /\ phase = "none"
    /\ frame = NoFrame
    /\ queue = <<>>
    /\ ri = 0
    /\ mon = NoMonitor
    /\ stack_status = ""
    /\ stack_statuses = <<>>
    /\ polls = 0
    /\ slept = 0
    /\ faults = NoRemoteFaults
    /\ stacks = [k \in Accounts \X Regions |-> Unknown]
    /\ stacksets = [r \in Regions |-> "UNKNOWN"]
    /\ instances = [r \in Regions |-> UnknownInstances]
    /\ cs = NoChangeSet
    /\ trace = <<>>
    /\ calls = <<>>
    /\ results = <<>>
    /\ err = NoError
    /\ params = [k \in {"main-region", "root-ou"} |->
                    IF k = "main-region" THEN "us-east-1" ELSE RootOu]

process_sam_except_reraising(e) == "raise"

\* `except subprocess.CalledProcessError as e:` around the commands of process_sam.
process_sam_except(e) ==
    IF IsInstance(e, "CalledProcessError") THEN "caught" ELSE "raise"

\* A command of process_sam, run with check=True, exits with a non-zero status.
CommandFails(cmd) ==
    /\ UNCHANGED <<inputVars, remoteVars, jobVars, localVars, faults>>
    /\ IF process_sam_except(ErrCalledProcess) = "caught"
       THEN /\ pc' = "sam_return"
            /\ Emit(<<Failed(cmd, ErrCalledProcess)>>)
            /\ UNCHANGED <<results, err>>
       ELSE Propagate(ErrCalledProcess, <<Failed(cmd, ErrCalledProcess)>>)

CommandSucceeds(cmd, next) ==
    /\ pc' = next
    /\ Emit(<<cmd>>)
    /\ UNCHANGED <<inputVars, remoteVars, jobVars, faults, results, err>>

\* process_cloudformation(pre_sam, ...) has returned: process_sam starts.
deploy_process_sam ==
    /\ pc = "done"
    /\ deploy_section = "pre-SAM"
    /\ deploy_section' = "SAM"
    /\ pc' = "sam_git_pull"
    /\ UNCHANGED <<dry_run, jobs, template, resources, post_sam, sam_regions, event, incidents,
                   remoteVars, jobVars, localVars, trace, calls, results, err, faults>>

\* subprocess.run(['git', 'pull'], check=True)
process_sam_git_pull ==
    /\ pc = "sam_git_pull"
    /\ LET cmd == Ev("process_sam", 189, "git_pull", SamProfile, "")
       IN  \/ CommandSucceeds(cmd, "sam_build") /\ UNCHANGED localVars
           \/ CommandFails(cmd)

\* The first `sam build`: a failure is caught, the build directory removed
\* and the build run once more.
process_sam_build ==
    /\ pc = "sam_build"
    /\ LET cmd == Ev("process_sam", 198, "sam_build", SamProfile, "")
       IN  \/ /\ CommandSucceeds(cmd, "sam_deploy")
              /\ ri' = 1
              /\ UNCHANGED <<mon, stack_status, stack_statuses, polls, slept>>
           \/ /\ CommandSucceeds(Failed(cmd, ErrCalledProcess), "sam_build_retry")
              /\ UNCHANGED localVars

process_sam_build_retry ==
    /\ pc = "sam_build_retry"
    /\ LET cmd == Ev("process_sam", 208, "sam_build", SamProfile, "")
       IN  \/ /\ CommandSucceeds(cmd, "sam_deploy")
              /\ ri' = 1
              /\ UNCHANGED <<mon, stack_status, stack_statuses, polls, slept>>
           \/ CommandFails(cmd)

\* One pass of `for region in sam_regions`: `sam deploy` for the region, the
\* change set left unexecuted in a dry run.
process_sam_deploy ==
    /\ pc = "sam_deploy"
    /\ IF ri > Len(sam_regions)
       THEN /\ pc' = "sam_return"
            /\ UNCHANGED <<inputVars, remoteVars, jobVars, localVars, trace, calls, results, err,
                           faults>>
       ELSE LET cmd == [Ev("process_sam", 243, "sam_deploy", SamProfile, sam_regions[ri])
                            EXCEPT !.tags = tags,
                                   !.name = IF dry_run THEN <<"--no-execute-changeset">> ELSE <<>>]
            IN  \/ /\ CommandSucceeds(cmd, "sam_deploy")
                   /\ ri' = ri + 1
                   /\ UNCHANGED <<mon, stack_status, stack_statuses, polls, slept>>
                \/ CommandFails(cmd)

\* process_sam has returned: process_cloudformation(post_sam, ...).
deploy_post_sam ==
    /\ pc = "sam_return"
    /\ deploy_section = "SAM"
    /\ deploy_section' = "post-SAM"
    /\ jobs' = post_sam
    /\ index' = 0
    /\ pc' = "jobs"
    /\ UNCHANGED <<dry_run, template, resources, post_sam, sam_regions, event, incidents,
                   remoteVars, phase, frame, queue, params, localVars, trace, calls, results, err,
                   faults>>

DeployNext ==
    \/ Next
    \/ deploy_process_sam
    \/ process_sam_git_pull
    \/ process_sam_build
    \/ process_sam_build_retry
    \/ process_sam_deploy
    \/ deploy_post_sam

DeploySpec == DeployInit /\ [][DeployNext]_vars

\* ======================================================= the incident producer
\* s3_tag_applied/app.py: lambda_handler receives one tagging event and calls
\* create_incident for the tags whose key is configured. An event is held as
\* its id and the value under detail.requestParameters.Tagging.TagSet.Tag,
\* which is a list of tags or, for a single tag, the tag object itself.
TAGS == {"public-access", "public-read"}
Keys == TAGS \cup {"team"}

Tag(key) == [Key |-> key, Value |-> "true"]

EventIds == {"event-1", "event-2"}

Events ==
    {[id |-> id, islist |-> TRUE, Tag |-> ts] :
        id \in EventIds, ts \in SeqsUpTo({Tag(k) : k \in Keys}, MaxTags)}
    \cup {[id |-> id, islist |-> FALSE, Tag |-> Tag(k)] : id \in EventIds, k \in Keys}

lambda_handler_tags_of_lists(e) == IF e.islist THEN e.Tag ELSE <<>>

\* `if not isinstance(tags, list): tags = [tags]`
lambda_handler_tags(e) == IF e.islist THEN e.Tag ELSE <<e.Tag>>

\* The finding create_incident builds for the event and the tag key.
Finding(e, tag) ==
    [Id |-> e.id, Title |-> <<"The tag", tag, "was applied to the S3 bucket">>,
     Severity |-> "CRITICAL"]

\* What a call of create_incident comes to: the finding is imported, the
\* import reports a failed count (printed, the call still returns True), or
\* the role assumption or the import raises.
IncidentResults == {"imported", "import_failed", "raised"}

Incident(e, tag, result) == [finding |-> Finding(e, tag), tag |-> tag, result |-> result]

HandlerInit ==
    /\ event \in Events
    /\ incidents = <<>>
    /\ deploy_section = "CloudFormation"
    /\ post_sam = <<>>
    /\ sam_regions = <<>>
    /\ template = NoTemplate
    /\ resources = NotParsed
    /\ dry_run = FALSE
    /\ jobs = <<>>
    /\ index = 0
    /\ pc = "lambda_handler"
    /\ phase = "none"
    /\ frame = NoFrame
    /\ queue = <<>>
    /\ ri = 0
    /\ mon = NoMonitor
    /\ stack_status = ""
    /\ stack_statuses = <<>>
    /\ polls = 0
    /\ slept = 0
    /\ faults = 0
    /\ stacks = [k \in Accounts \X Regions |-> Unknown]
    /\ stacksets = [r \in Regions |-> "UNKNOWN"]
    /\ instances = [r \in Regions |-> UnknownInstances]
    /\ cs = NoChangeSet
    /\ trace = <<>>
    /\ calls = <<>>
    /\ results = <<>>
    /\ err = NoError
    /\ params = [k \in {"main-region", "root-ou"} |->
                    IF k = "main-region" THEN "us-east-1" ELSE RootOu]

\* The head of lambda_handler: the tags of the event, as a list (held in queue).
lambda_handler ==
    /\ pc = "lambda_handler"
    /\ queue' = lambda_handler_tags(event)
    /\ ri' = 1
    /\ pc' = "for_tag"
    /\ UNCHANGED <<inputVars, remoteVars, index, phase, frame, params, mon, stack_status,
                   stack_statuses, polls, slept, trace, calls, results, err, faults>>

\* One pass of `for tag in tags`: create_incident when the key is in TAGS.
\* lambda_handler catches nothing, so an exception of create_incident ends it.
lambda_handler_for_tag ==
    /\ pc = "for_tag"
    /\ UNCHANGED <<dry_run, jobs, template, resources, deploy_section, post_sam, sam_regions,
                   event, remoteVars, jobVars, mon, stack_status, stack_statuses, polls, slept,
                   trace, calls, results, faults>>
    /\ IF ri > Len(queue)
       THEN /\ pc' = "returned"
            /\ UNCHANGED <<incidents, ri, err>>
       ELSE LET key == queue[ri].Key
            IN  IF key \in TAGS
                THEN \E result \in IncidentResults :
                        /\ incidents' = Append(incidents, Incident(event, key, result))
                        /\ IF result = "raised"
                           THEN /\ pc' = "failed"
                                /\ err' = ErrDenied
                                /\ ri' = ri
                           ELSE /\ pc' = "for_tag"
                                /\ err' = err
                                /\ ri' = ri + 1
                ELSE /\ pc' = "for_tag"
                     /\ ri' = ri + 1
                     /\ UNCHANGED <<incidents, err>>

HandlerNext == lambda_handler \/ lambda_handler_for_tag

HandlerSpec == HandlerInit /\ [][HandlerNext]_vars

\* ======================================================== the static preview
\* A template text is a JSON document or some other text. A JSON document is
\* held as the value json.loads returns for it: its top-level kind, and for an
\* object the value under "Resources" (absent, null, or an object whose
\* members are <<logical name, details>> pairs in document order, the details
\* being an object with or without "Type", or a string). Any other text is
\* held as its lines: the number of leading spaces and the words after them.
None == "None"

Line(spaces, text) == [spaces |-> spaces, text |-> text]

Object(type) == [tag |-> "object", Type |-> type]
Scalar == [tag |-> "string", Type |-> None]

Json(top, tag, members) ==
    [format |-> "json", doc |-> [top |-> top, tag |-> tag, members |-> members], lines |-> <<>>]

Text(lines) ==
    [format |-> "text", doc |-> [top |-> "", tag |-> "", members |-> <<>>], lines |-> lines]

LogicalNames == {"Bucket", "Topic"}
Types == {"AWS::S3::Bucket"}
Details == {Object(t) : t \in Types \cup {None}} \cup {Scalar}

\* Member lists with pairwise different logical names: a JSON object read by
\* json.loads has each key once.
Members ==
    {ms \in SeqsUpTo(LogicalNames \X Details, MaxMembers) :
        \A i, j \in 1..Len(ms) : i # j => ms[i][1] # ms[j][1]}

JsonTemplates ==
    {Json("array", "", <<>>), Json("object", "absent", <<>>), Json("object", "null", <<>>)}
    \cup {Json("object", "object", ms) : ms \in Members}

Indents == {2, 4, 6}
SectionTexts == {<<n, ":">> : n \in LogicalNames}
                \cup {<<"Type", ":", t>> : t \in Types}
                \cup {<<"BucketName", ":", "logs">>}
SectionLines == {Line(s, t) : s \in Indents, t \in SectionTexts}
                \cup {Line(2, <<"#", "Type", ":", "AWS::S3::Bucket">>)}

ResourcesLine == Line(0, <<"Resources", ":">>)
Heads == {<<>>, <<ResourcesLine>>,
          <<Line(0, <<"Description", ":", "logs">>), Line(0, <<>>), ResourcesLine>>}
Tails == {<<>>, <<Line(0, <<"Outputs", ":">>), Line(2, <<"Topic", ":">>),
                  Line(4, <<"Type", ":", "AWS::S3::Bucket">>)>>}

TextTemplates ==
    {Text(h \o body \o t) : h \in Heads, body \in SeqsUpTo(SectionLines, MaxLines), t \in Tails}

Templates == JsonTemplates \cup TextTemplates

\* str.startswith and str.endswith on the words of a line.
StartsWith(text, prefix) ==
    Len(text) >= Len(prefix) /\ SubSeq(text, 1, Len(prefix)) = prefix

EndsWith(text, suffix) ==
    Len(text) >= Len(suffix) /\ SubSeq(text, Len(text) - Len(suffix) + 1, Len(text)) = suffix

\* The least element of a non-empty set of numbers.
Min(S) == CHOOSE n \in S : \A m \in S : n <= m

\* `line.strip() and not line.lstrip().startswith('#')`
IsContent(line) == line.text # <<>> /\ ~StartsWith(line.text, <<"#">>)

parse_yaml_template_keeping_name(resource_list, logical_name) == logical_name

\* `logical_name = None  # Reset logical_name` after an entry was appended.
parse_yaml_template_reset(resource_list, logical_name) == None

\* The loop over the lines of the Resources section from line i on.
RECURSIVE parse_yaml_template_loop(_, _, _, _, _)
parse_yaml_template_loop(section, spaces_per_indent, i, resource_list, logical_name) ==
    IF i > Len(section) THEN resource_list
    ELSE LET stripped_line == section[i].text
             indent_level == section[i].spaces \div spaces_per_indent
         IN  IF indent_level = 1 /\ EndsWith(stripped_line, <<":">>)
             THEN parse_yaml_template_loop(section, spaces_per_indent, i + 1, resource_list,
                                           SubSeq(stripped_line, 1, Len(stripped_line) - 1))
             ELSE IF indent_level = 2 /\ StartsWith(stripped_line, <<"Type", ":">>)
                     /\ logical_name # None
             THEN parse_yaml_template_loop(
                      section, spaces_per_indent, i + 1,
                      Append(resource_list,
                             <<logical_name, SubSeq(stripped_line, 3, Len(stripped_line))>>),
                      parse_yaml_template_reset(resource_list, logical_name))
             ELSE parse_yaml_template_loop(section, spaces_per_indent, i + 1, resource_list,
                                           logical_name)

\* The lines of the Resources section: those after the first line that starts
\* with 'Resources:' and before the next line that does not start with a space.
resources_section(text) ==
    LET lines == SelectSeq(text, IsContent)
        starts == {i \in 1..Len(lines) :
                      lines[i].spaces = 0 /\ StartsWith(lines[i].text, <<"Resources", ":">>)}
    IN  IF starts = {} THEN <<>>
        ELSE LET resources_start == Min(starts)
                 ends == {i \in (resources_start + 1)..Len(lines) : lines[i].spaces = 0}
                 resources_end == IF ends = {} THEN Len(lines) + 1 ELSE Min(ends)
             IN  SubSeq(lines, resources_start + 1, resources_end - 1)

parse_yaml_template(text) ==
    LET section == resources_section(text)
    IN  IF section = <<>> THEN <<>>
        ELSE parse_yaml_template_loop(section, section[1].spaces, 1, <<>>, None)

ErrJSONDecode == Error("JSONDecodeError", "", <<"Expecting value">>)
ErrNoAttribute == Error("AttributeError", "", <<"object has no attribute">>)

\* json.loads: the document, or JSONDecodeError for a text that is no JSON.
json_loads(t) ==
    IF t.format = "json" THEN [error |-> NoError, value |-> t.doc]
    ELSE [error |-> ErrJSONDecode, value |-> t.doc]

Returned(parser, list) == [parser |-> parser, error |-> NoError, list |-> list]
Raised(parser, e) == [parser |-> parser, error |-> e, list |-> <<>>]

typed_resource_entries(members) ==
    LET typed == SelectSeq(members, LAMBDA m : m[2].Type # None)
    IN  [i \in 1..Len(typed) |-> <<typed[i][1], typed[i][2].Type>>]

\* `[(name, details.get('Type')) for name, details in resources.items()]`
resource_entries(members) ==
    [i \in 1..Len(members) |-> <<members[i][1], members[i][2].Type>>]

\* parse_template: what it returns or raises, and the parser that produced it.
parse_template(t) ==
    LET loaded == json_loads(t)
        parsed == loaded.value
    IN  IF loaded.error # NoError
        THEN Returned("parse_yaml_template", parse_yaml_template(t.lines))
        ELSE IF parsed.top # "object" THEN Raised("json", ErrNoAttribute)
        ELSE IF parsed.tag = "absent" THEN Returned("json", <<>>)
        ELSE IF parsed.tag # "object" THEN Raised("json", ErrNoAttribute)
        ELSE IF \E i \in 1..Len(parsed.members) : parsed.members[i][2].tag # "object"
        THEN Raised("json", ErrNoAttribute)
        ELSE Returned("json", resource_entries(parsed.members))

\* The runs of the static preview: one template, parsed once.
PreviewInit ==
    /\ event = NoEvent
    /\ incidents = <<>>
    /\ deploy_section = "CloudFormation"
    /\ post_sam = <<>>
    /\ sam_regions = <<>>
    /\ template \in Templates
    /\ resources = NotParsed
    /\ dry_run = TRUE
    /\ jobs = <<>>
    /\ index = 0
    /\ pc = "parse_template"
    /\ phase = "none"
    /\ frame = NoFrame
    /\ queue = <<>>
    /\ ri = 0
    /\ mon = NoMonitor
    /\ stack_status = ""
    /\ stack_statuses = <<>>
    /\ polls = 0
    /\ slept = 0
    /\ faults = 0
    /\ stacks = [k \in Accounts \X Regions |-> Unknown]
    /\ stacksets = [r \in Regions |-> "UNKNOWN"]
    /\ instances = [r \in Regions |-> UnknownInstances]
    /\ cs = NoChangeSet
    /\ trace = <<>>
    /\ calls = <<>>
    /\ results = <<>>
    /\ err = NoError
    /\ params = [k \in {"main-region", "root-ou"} |->
                    IF k = "main-region" THEN "us-east-1" ELSE RootOu]

preview ==
    /\ pc = "parse_template"
    /\ resources' = parse_template(template)
    /\ pc' = "print_template_resources"
    /\ UNCHANGED <<dry_run, jobs, template, deploy_section, post_sam, sam_regions, event, incidents,
                   remoteVars, jobVars, localVars, trace, calls, results, err, faults>>

PreviewNext == preview

PreviewSpec == PreviewInit /\ [][PreviewNext]_vars

\* ===================================================================== claims
Last(s) == s[Len(s)]

\* The calls that deploy: they create or change a stack, a stackset or its
\* instances.
DeployingOps == {"create_stack", "execute_change_set", "create_stack_set",
                 "update_stack_set", "create_stack_instances"}

\* The status allow-list as the specification spells it out.
AllowList == {"CREATE_COMPLETE", "ROLLBACK_COMPLETE", "UPDATE_COMPLETE",
              "UPDATE_ROLLBACK_COMPLETE", "DELETE_COMPLETE", "CURRENT", "ACTIVE"}

SinglePollers == {"monitor_stack_until_complete", "monitor_stackset_until_complete"}
FirstLoops == {"ms_first", "mss_first"}
PollLoops == {"ms_loop", "mss_loop"}

\* A single-entity poller has just returned to its caller, and no other
\* poller has read since.
PollReturned ==
    /\ trace # <<>>
    /\ pc \notin PollLoops \cup {"msi_loop"}
    /\ Last(trace).op = "poll"
    /\ Last(trace).fn \in SinglePollers

\* C1 as stated: in a dry run no job that ends without an error has an
\* outcome other than SkippedDryRun or NoChanges, and no create, update or
\* instance call and no change-set computation or execution is issued.
C1_NoChangeSetUnderDryRun ==
    dry_run =>
        /\ \A i \in 1..Len(calls) :
              calls[i].op \notin DeployingOps \cup {"create_change_set"}
        /\ \A i \in 1..Len(results) :
              results[i].outcome \in {"SkippedDryRun", "NoChanges", "Failed"}

\* C1, amended: in a dry run every outcome is SkippedDryRun, NoChanges or
\* (a remote error left the controller) Failed, never Created or Updated, and
\* no create_stack, execute_change_set, create_stack_set, update_stack_set or
\* create_stack_instances is issued; the change-set computation request is
\* still issued for a stack that exists.
C1_DryRunDeploysNothing ==
    dry_run =>
        /\ \A i \in 1..Len(calls) : calls[i].op \notin DeployingOps
        /\ \A i \in 1..Len(results) :
              results[i].outcome \in {"SkippedDryRun", "NoChanges", "Failed"}

\* A dry run previewed the change set of an existing stack and stopped.
C1_Witness ==
    /\ dry_run
    /\ results # <<>>
    /\ Last(results).outcome = "SkippedDryRun"
    /\ \E i \in 1..Len(trace) : trace[i].op = "print_change_set"
    /\ \E i \in 1..Len(calls) : calls[i].op = "create_change_set" /\ calls[i].ok

\* The stack of the job being worked on is deployed and equal to the template.
Reconciled(ent) ==
    ent.status \in {"CREATE_COMPLETE", "UPDATE_COMPLETE"} /\ ~ent.drift

\* C2: a second invocation on a target the first one left reconciled, with no
\* remote error, ends every step as NoChanges and issues no deploying call.
\* Stated for the run of the same stack job twice, at the states of the second
\* job where the remote side has reported the change set as empty.
C2_SecondRunIsNoChanges ==
    ( /\ ~dry_run
      /\ index = 2
      /\ phase = "stack"
      /\ faults = 0
      /\ results # <<>>
      /\ results[1].outcome \in {"Created", "Updated", "NoChanges"}
      /\ Reconciled(stacks[<<frame.account, CurRegion>>])
      /\ cs.status = "FAILED"
      /\ Contains(cs.reason, NoChangesReason) )
    =>
        /\ pc # "failed"
        /\ \A i \in 1..Len(results) :
              results[i].index = 2 => results[i].outcome = "NoChanges"
        /\ \A i \in 1..Len(calls) :
              calls[i].index = 2 => calls[i].op \notin DeployingOps

\* C3 as stated: a single-entity poller that read an allow-list status has
\* returned without sleeping.
C3_ReturnsWithoutSleeping ==
    (PollReturned /\ Last(trace).status \in AllowList) => slept = 0

\* C3, amended: a read of an allow-list status always ends the poll; the
\* poller returns without sleeping when that read is its first one, and sleeps
\* the settle delay of 5 seconds before returning when it is a read of the loop.
C3_SleepsOnlyAfterLoopRead ==
    /\ pc \in PollLoops => stack_status \notin AllowList
    /\ PollReturned =>
          /\ Last(trace).status \in AllowList
          /\ Last(trace).line \in {735, 802} => slept = 0
          /\ Last(trace).line \in {757, 824} => slept = SettleDelay

\* The stack poller left its loop on a terminal status, after the settle delay.
C3_Witness ==
    /\ PollReturned
    /\ Last(trace).line = 757
    /\ Last(trace).status \in AllowList
    /\ slept = SettleDelay

\* C4: a status outside the allow-list on the first read keeps the poller in
\* its loop, and the poller leaves the loop only by reading an allow-list
\* status (returning to its caller) or by an error that ends the run.
C4_LeavesLoopOnlyOnAllowList ==
    [][ /\ (pc \in FirstLoops /\ ~mon.dry /\ pc' # "failed" /\ stack_status' \notin AllowList)
            => pc' \in PollLoops
        /\ (pc \in PollLoops /\ stack_status' \notin AllowList /\ pc' # "failed")
            => pc' = pc
        /\ (pc \in PollLoops /\ pc' # pc)
            => \/ pc' = "failed" /\ err' # NoError
               \/ stack_status' \in AllowList /\ pc' = Head(mon.ret) ]_vars

\* The stackset poller read PENDING first, stayed, and left on ACTIVE.
C4_Witness ==
    /\ PollReturned
    /\ Last(trace).line = 824
    /\ Last(trace).status = "ACTIVE"
    /\ stack_status = "ACTIVE"

\* C5: every instance deployment call of a job with an exception account A
\* targets the root OU with Accounts = [A] and filter type DIFFERENCE, A is in
\* no inclusion-type account list, and a job without an exception account
\* targets the root OU alone.
C5_ExceptionAccountExcluded ==
    \A i \in 1..Len(calls) :
        calls[i].op = "create_stack_instances" =>
            LET A == jobs[calls[i].index].except_account
                t == calls[i].targets
            IN  /\ t["OrganizationalUnitIds"] = <<RootOu>>
                /\ IF A # NoAccount
                   THEN /\ DOMAIN t = {"OrganizationalUnitIds", "Accounts", "AccountFilterType"}
                        /\ t["Accounts"] = <<A>>
                        /\ t["AccountFilterType"] = "DIFFERENCE"
                   ELSE DOMAIN t = {"OrganizationalUnitIds"}

\* Instances were requested for a job that excepts an account.
C5_Witness ==
    \E i \in 1..Len(calls) :
        /\ calls[i].op = "create_stack_instances"
        /\ calls[i].ok
        /\ jobs[calls[i].index].except_account = OtherAccount
        /\ "Accounts" \in DOMAIN calls[i].targets

\* The events of the step in progress with operation op.
Count(op) == Cardinality({i \in 1..Len(trace) : trace[i].op = op})

ChangeSetOps == {"create_change_set", "describe_change_set", "wait_change_set",
                 "print_change_set", "execute_change_set"}

\* The step in progress is a stack job's, dry-run off, and its existence probe
\* answered that the stack does not exist.
AbsentStep ==
    /\ phase = "stack"
    /\ ~dry_run
    /\ Len(trace) >= 2
    /\ trace[2].fn = "does_stack_exist"
    /\ trace[2].error = ErrNotExist

\* C6: in a stack job's step (dry-run off) whose probe reports the stack
\* absent, no change-set call is issued, create_stack is issued once and
\* before any poll, and when no call of the step fails the step ends after a
\* poll that read an allow-list status, with outcome Created for that account
\* and region.
C6_AbsentStackIsCreatedOnce ==
    AbsentStep =>
        /\ \A i \in 1..Len(trace) : trace[i].op \notin ChangeSetOps
        /\ Count("create_stack") <= 1
        /\ pc \in {"ms_first", "ms_loop"} =>
              /\ Count("create_stack") = 1
              /\ Count("poll") = 0
              /\ Last(results).outcome = "Created"
        /\ ( /\ pc \notin {"ps_stack_create", "ms_first", "ms_loop", "failed"}
             /\ \A i \in 3..Len(trace) : trace[i].error = NoError )
           =>
              /\ Count("create_stack") = 1
              /\ Count("poll") = 1
              /\ Last(trace).op = "poll"
              /\ Last(trace).status \in AllowList
              /\ Last(results) = [index |-> index, phase |-> "stack", account |-> frame.account,
                                  region |-> trace[2].region, outcome |-> "Created"]

\* An absent stack was created and polled through CREATE_IN_PROGRESS to
\* CREATE_COMPLETE.
C6_Witness ==
    /\ AbsentStep
    /\ Count("create_stack") = 1
    /\ Last(trace).op = "poll"
    /\ Last(trace).line = 757
    /\ Last(trace).status = "CREATE_COMPLETE"
    /\ Last(results).outcome = "Created"

\* The first describe_change_set of the step in progress answered FAILED with
\* the no-changes reason.
NoChangesReported ==
    /\ phase = "stack"
    /\ cs.status = "FAILED"
    /\ Contains(cs.reason, NoChangesReason)
    /\ \E i \in 1..Len(trace) :
          /\ trace[i].op = "describe_change_set"
          /\ trace[i].line = 476
          /\ trace[i].status = "FAILED"

ProbeIdx == {i \in 1..Len(calls) : calls[i].fn = "does_stackset_exist"}

Invocation ==
    IF ProbeIdx = {} THEN <<>>
    ELSE SubSeq(calls, CHOOSE i \in ProbeIdx : \A j \in ProbeIdx : j <= i, Len(calls))

\* C8: in a handle_stack_set invocation (dry-run off) whose probe did not find
\* the stackset, the calls come in the order create_stack_set, stackset poll,
\* create_stack_instances against the root OU, instance poll, and only then
\* the admin-account stack calls; each poll that returned read terminal statuses.
C8_StackSetCreateOrder ==
    (phase \in {"stackset", "mirror"} /\ pc # "hss_probe" /\ ~dry_run) =>
        LET S == Invocation
            n == Len(S)
        IN  (n > 0 /\ ~S[1].ok) =>
                /\ n >= 2 => S[2].op = "create_stack_set" /\ S[2].phase = "stackset"
                /\ n >= 3 => S[3].fn = "monitor_stackset_until_complete" /\ S[3].phase = "stackset"
                /\ n >= 4 => /\ S[4].op = "create_stack_instances"
                             /\ S[4].phase = "stackset"
                             /\ S[4].targets["OrganizationalUnitIds"] = <<frame.root_ou>>
                             /\ S[3].op = "poll"
                /\ n >= 5 => S[5].fn = "monitor_stackset_stacks_until_complete" /\ S[5].phase = "stackset"
                /\ n >= 6 => S[5].op = "poll"
                /\ \A i \in 6..n : S[i].phase = "mirror"
                /\ phase = "mirror" => n >= 5
                /\ phase = "stackset" =>
                      \A i \in 1..Len(trace) :
                          trace[i].op = "poll" =>
                              IF trace[i].fn = "monitor_stackset_until_complete"
                              THEN trace[i].status \in AllowList
                              ELSE AllTerminal(trace[i].statuses)

\* A stackset was created, its instances requested and polled, and the admin
\* account's stack probed.
C8_Witness ==
    /\ phase = "mirror"
    /\ ~dry_run
    /\ LET S == Invocation
       IN  /\ Len(S) >= 6
           /\ S[2].op = "create_stack_set"
           /\ S[2].ok
           /\ S[4].op = "create_stack_instances"
           /\ S[6].fn = "does_stack_exist"

IsMirrorProbe(c) == c.phase = "mirror" /\ c.fn = "does_stack_exist"

\* C9: the admin-account stack lifecycle runs once per region of the
\* invocation, in declared order, exactly when the excepted account is not the
\* admin account: the probes go to the admin account region by region, every
\* create or change-set call follows the probe of its region, an invocation
\* that returned has probed every region, and with the admin account
\* excepted no admin-account call is issued.
C9_AdminMirroring ==
    (phase \in {"stackset", "mirror"} /\ pc # "hss_probe") =>
        LET S == Invocation
            n == Len(S)
            probes == {i \in 1..n : IsMirrorProbe(S[i])}
            Nth(i) == Cardinality({j \in probes : j <= i})
        IN  n > 0 =>
                /\ frame.except_account = frame.admin_account_id =>
                      /\ phase = "stackset"
                      /\ \A i \in 1..n : S[i].phase = "stackset"
                /\ Cardinality(probes) <= Len(frame.regions)
                /\ \A i \in probes :
                      /\ S[i].region = frame.regions[Nth(i)]
                      /\ S[i].account = frame.admin_account_id
                /\ \A i \in 1..n :
                      (S[i].phase = "mirror" /\ i \notin probes) =>
                          /\ Nth(i) >= 1
                          /\ S[i].region = frame.regions[Nth(i)]
                /\ (pc \in {"separate", "jobs", "done"} /\ frame.except_account # frame.admin_account_id) =>
                      /\ phase = "mirror"
                      /\ Cardinality(probes) = Len(frame.regions)

\* A stackset job excepting another account than the admin account returned
\* after the admin account's stack was handled in both regions.
C9_Witness ==
    /\ phase = "mirror"
    /\ pc \in {"separate", "jobs", "done"}
    /\ frame.except_account = OtherAccount
    /\ Len(frame.regions) = 2
    /\ LET S == Invocation
       IN  /\ Len(SelectSeq(S, IsMirrorProbe)) = 2
           /\ \E i \in 1..Len(S) :
                 S[i].phase = "mirror" /\ S[i].op \in {"create_stack", "create_change_set"}

\* C10: when the stackset step is left (dry-run off) after a create_stack_set
\* or an update_stack_set that succeeded, a create_stack_instances call
\* against the root OU has been issued after it.
C10_InstancesAfterCreateOrUpdate ==
    (phase = "stackset" /\ ~dry_run /\ pc = "hss_mirror") =>
        LET S == Invocation
        IN  \A i \in 1..Len(S) :
                (S[i].op \in {"create_stack_set", "update_stack_set"} /\ S[i].ok) =>
                    \E j \in (i + 1)..Len(S) :
                        /\ S[j].op = "create_stack_instances"
                        /\ S[j].targets["OrganizationalUnitIds"] = <<frame.root_ou>>

\* The run has ended: the job loop ran out of jobs, or an exception left it.
RunEnded == pc \in {"done", "failed"}

RemoteErrorClasses == {"ClientError", "WaiterError", "BotoCoreError"}

\* C11: a remote error that leaves a controller while job i is processed ends
\* job i only: when the run ends, every job of the list has been processed.
C11_LaterJobsAreProcessed ==
    (RunEnded /\ err.cls \in RemoteErrorClasses) => index = Len(jobs)

\* A client error whose text says that there is nothing to update.
IsNoUpdates(e) == e.cls = "ClientError" /\ Contains(Str(e), NoUpdatesText)

PollPcs == {"ms_first", "ms_loop", "mss_first", "mss_loop", "msi_first", "msi_loop"}

\* The run ended while a template was read, before any controller was entered.
TemplateFailed == results # <<>> /\ Last(results).phase = "template"

\* The latest event is a call of process_stack that failed, and no later job
\* has been started since.
StackCallFailed ==
    /\ trace # <<>>
    /\ Last(trace).fn = "process_stack"
    /\ Last(trace).error # NoError
    /\ ~TemplateFailed

\* C12: a no-updates client error from any create or update call
\* ends as NoChanges with no exception and no poll after it; any other error
\* of a call of process_stack leaves process_stack unchanged.
C12_NoUpdatesNeverPolled ==
    StackCallFailed =>
        IF IsNoUpdates(Last(trace).error)
        THEN /\ pc \notin PollPcs \cup {"failed"}
             /\ err = NoError
             /\ Last(results).outcome = "NoChanges"
        ELSE pc = "failed" /\ err = Last(trace).error

\* The existence probe of the current step has answered and nothing has been
\* logged since: the controller is at the head of the branch it selected, or in
\* the poll that opens the update branch.
Probed ==
    /\ Len(trace) = 2
    /\ trace[2].op \in {"describe_stacks", "describe_stack_set"}

\* What the probe's answer says about the entity, read off the answer itself.
ProbeSaysAbsent(ev) ==
    /\ ev.error.cls = "ClientError"
    /\ IF ev.op = "describe_stacks"
       THEN ev.error.code = "ValidationError" /\ Contains(ev.error.msg, <<"does not exist">>)
       ELSE ev.error.code = "StackSetNotFoundException"

CreateBranch(ev) ==
    IF ev.op = "describe_stacks" THEN {"ps_stack_create"} ELSE {"ps_create_stack_set"}

UpdateBranch(ev) ==
    IF ev.op = "describe_stacks" THEN {"ms_first", "ms_loop"} ELSE {"mss_first", "mss_loop"}

\* C13: after an existence probe the create branch is entered exactly when the
\* probe failed with the does-not-exist validation error (stack) or with
\* stackset-not-found (stackset), the update branch exactly when the probe
\* succeeded, and any other probe error ends the run with that error, neither
\* branch entered.
C13_ProbeSelectsBranch ==
    Probed =>
        LET ev == trace[2]
        IN  IF ev.error = NoError
            THEN pc \in UpdateBranch(ev) /\ err = NoError
            ELSE IF ProbeSaysAbsent(ev)
            THEN pc \in CreateBranch(ev) /\ err = NoError
            ELSE pc = "failed" /\ err = ev.error

\* A stackset probe failed with a client error other than stackset-not-found,
\* and the run ended with it.
C13_Witness ==
    /\ Probed
    /\ trace[2].op = "describe_stack_set"
    /\ trace[2].error.cls = "ClientError"
    /\ trace[2].error.code # "StackSetNotFoundException"
    /\ pc = "failed"

Pollers == SinglePollers \cup {"monitor_stackset_stacks_until_complete"}

\* The signals of the remote side that ask for patience: rate limiting, as the
\* API reports it and as a waiter reports it, and a conflicting operation in
\* progress.
TransientSignals == {ErrThrottled, ErrWaiterThrottled, ErrInProgress}

\* The run ended in a poller, on a status read that failed with error e.
PollAbortedOn(e) ==
    /\ pc = "failed"
    /\ ~TemplateFailed
    /\ trace # <<>>
    /\ Last(trace).fn \in Pollers
    /\ Last(trace).op \notin {"assume_role", "retry", "poll", "sleep"}
    /\ Last(trace).error = e

\* C14: a rate-limit or conflicting-operation signal on a status read of a
\* poll, the first read included, never aborts the poll: the read is retried
\* after the backoff.
C14_TransientSignalsNeverAbort ==
    \A e \in TransientSignals : ~PollAbortedOn(e)

\* Event ev is a status read of a poller that failed with an error that is no
\* transient signal.
OtherReadError(ev) ==
    /\ ev.fn \in Pollers
    /\ ev.op \notin {"assume_role", "poll", "sleep"}
    /\ ev.error # NoError
    /\ ev.error \notin TransientSignals

\* C15: in the three pollers a status read that fails with an error that is
\* neither a rate-limit nor an operation-in-progress signal is never retried,
\* and ends the run with that very error.
C15_OtherReadErrorsPropagate ==
    \A i \in 1..Len(trace) :
        OtherReadError(trace[i]) =>
            /\ trace[i].op # "retry"
            /\ i = Len(trace)
            /\ pc = "failed"
            /\ err = trace[i].error

MarkerTag == {<<"infra:immutable", "true">>}

\* The mutating calls of the claim, and those of them whose request has a
\* Tags argument in the code.
MutatingOps == {"create_stack", "create_change_set", "execute_change_set",
                "create_stack_set", "update_stack_set", "create_stack_instances"}
TaggedOps == {"create_stack", "create_change_set", "create_stack_set", "update_stack_set"}

\* C16: every mutating call issued carries the marker tag infra:immutable = true.
C16_EveryMutatingCallTagged ==
    \A i \in 1..Len(calls) :
        calls[i].op \in MutatingOps => calls[i].tags = MarkerTag

\* C16, amended: create_stack, create_change_set, create_stack_set and
\* update_stack_set carry exactly the marker tag, for every job;
\* execute_change_set and create_stack_instances are issued without tags.
C16_TaggedWhereRequested ==
    \A i \in 1..Len(calls) :
        /\ calls[i].op \in TaggedOps => calls[i].tags = MarkerTag
        /\ calls[i].op \in MutatingOps \ TaggedOps => calls[i].tags = {}

\* A stackset was created and its instances requested: one call of each kind.
C16_Witness ==
    /\ \E i \in 1..Len(calls) : calls[i].op = "create_stack_set" /\ calls[i].ok
    /\ \E i \in 1..Len(calls) : calls[i].op = "create_stack_instances" /\ calls[i].ok

\* The template of the job being processed was rejected with error e: the run
\* ended while it was read.
TemplateRejected(e) ==
    /\ pc = "failed"
    /\ TemplateFailed
    /\ Last(results).index = index
    /\ err = e

\* The template of the job being processed was read and handed on.
TemplateLoaded == ~(TemplateFailed /\ Last(results).index = index)

\* C17: a template of fewer than 51200 bytes is returned, and a template of
\* 51200 bytes or more fails with the size error.
C17_CeilingAtOrAbove ==
    index >= 1 =>
        LET t == jobs[index].template
        IN  /\ (t # NotFound /\ t < 51200) => TemplateLoaded
            /\ t >= 51200 => TemplateRejected(ErrConfigTooLarge)

\* C17, amended: a template of at most 51200 bytes is returned (the boundary
\* value 51200 included), and a template of more than 51200 bytes fails with
\* the size error.
C17_CeilingAbove ==
    index >= 1 =>
        LET t == jobs[index].template
        IN  /\ (t # NotFound /\ t <= 51200) => TemplateLoaded
            /\ t > 51200 => TemplateRejected(ErrConfigTooLarge)

\* A template of exactly 51200 bytes was loaded and its job reached the remote
\* side.
C17_Witness ==
    /\ index >= 1
    /\ jobs[index].template = 51200
    /\ TemplateLoaded
    /\ \E i \in 1..Len(calls) : calls[i].index = index

\* C18: when the run fails because a job's template is missing or oversized,
\* no remote control-plane call has been issued in the run.
C18_ConfigErrorBeforeAnyCall ==
    (pc = "failed" /\ TemplateFailed /\ err \in {ErrConfigNotFound, ErrConfigTooLarge}) =>
        calls = <<>>

\* Event ev is a create_stack or execute_change_set that the remote side accepted.
StackMutation(ev) ==
    /\ ev.fn = "process_stack"
    /\ ev.op \in {"create_stack", "execute_change_set"}
    /\ ev.error = NoError

\* C19: once a create_stack or execute_change_set has been issued in a step of
\* the stack path, the controller is polling that stack, or the poll has ended
\* the run with an error, or the poll has returned on an allow-list status,
\* which is then the last status observed; only in the last case does the
\* controller stand at the next region or the next job.
C19_PolledAfterMutation ==
    \A i \in 1..Len(trace) :
        StackMutation(trace[i]) =>
            \/ /\ pc \in {"ms_first", "ms_loop"}
               /\ ~mon.dry
               /\ mon.account = trace[i].account
               /\ mon.region = trace[i].region
            \/ /\ pc = "failed"
               /\ ~TemplateFailed
               /\ Last(trace).fn = "monitor_stack_until_complete"
               /\ Last(trace).error # NoError
            \/ /\ Last(trace).fn = "monitor_stack_until_complete"
               /\ Last(trace).op = "poll"
               /\ Last(trace).account = trace[i].account
               /\ Last(trace).region = trace[i].region
               /\ Last(trace).status \in AllowList
               /\ stack_status = Last(trace).status

\* The stack of the first of two regions was created and polled to an
\* allow-list status, and the controller stands at the second region.
C19_Witness ==
    /\ pc = "hs_region"
    /\ Len(frame.regions) = 2
    /\ ri = 2
    /\ \E i \in 1..Len(trace) : StackMutation(trace[i]) /\ trace[i].op = "create_stack"
    /\ Last(trace).op = "poll"
    /\ stack_status \in AllowList

\* The latest step of a stack path has ended with no mutating call issued: its
\* outcome is NoChanges or SkippedDryRun and the controller is back at the
\* head of the region loop.
QuietStackStep ==
    /\ pc \in {"hs_region", "mirror_region"}
    /\ trace # <<>>
    /\ trace[1].fn = "does_stack_exist"
    /\ results # <<>>
    /\ results[Len(results)].outcome \in {"NoChanges", "SkippedDryRun"}
    /\ \A i \in 1..Len(trace) : ~StackMutation(trace[i])

PollEvents == {i \in 1..Len(trace) : trace[i].fn = "monitor_stack_until_complete"}

\* C20: a stack step that ends in NoChanges or SkippedDryRun has read no status.
C20_QuietStepNeverPolls ==
    QuietStackStep => PollEvents = {}

\* C20, amended: a stack step that ends in NoChanges or SkippedDryRun polls
\* nothing after the operation: on the create path it has read no status at
\* all, and on the update path the one poll it made is the one before the
\* change set was requested, which runs with dry-run forced off.
C20_QuietStepNeverPollsAfterwards ==
    QuietStackStep =>
        /\ Last(trace).fn = "process_stack"
        /\ \A i \in PollEvents :
             \E j \in (i + 1)..Len(trace) : trace[j].op = "create_change_set"
        /\ (\A j \in 1..Len(trace) : trace[j].op # "create_change_set") => PollEvents = {}

\* A dry run of an existing stack printed its change set and went on to the
\* next region, the pre-update poll made and no other.
C20_Witness ==
    /\ QuietStackStep
    /\ dry_run
    /\ Last(results).outcome = "SkippedDryRun"
    /\ Last(trace).op = "print_change_set"
    /\ PollEvents # {}

\* The regions probed by does_stackset_exist while job k was processed, one per
\* invocation of the stackset path, in the order of the invocations.
StackSetProbes(k) ==
    LET P == SelectSeq(calls, LAMBDA c : c.index = k /\ c.fn = "does_stackset_exist")
    IN  [i \in 1..Len(P) |-> P[i].region]

\* The controller of job k has returned without an error.
JobReturned(k) == pc # "failed" /\ (k < index \/ (k = index /\ pc \in {"jobs", "done"}))

\* C21: the calls of a job are made by the stackset path exactly when its
\* account is ALL and by the stack path otherwise; a stackset job that asks
\* for separate regions enters the stackset path once per region, in the order
\* of the list and with that region alone, and any other stackset job enters
\* it once with the whole list.
C21_ClassifiedAndSplit ==
    /\ \A i \in 1..Len(calls) :
          IF jobs[calls[i].index].account = AllSentinel
          THEN calls[i].phase \in {"stackset", "mirror"}
          ELSE calls[i].phase = "stack"
    /\ \A k \in 1..index :
          LET job == jobs[k]
              P == StackSetProbes(k)
          IN  IF job.account # AllSentinel THEN P = <<>>
              ELSE IF job.separate_regions
              THEN /\ Len(P) <= Len(job.regions)
                   /\ P = SubSeq(job.regions, 1, Len(P))
                   /\ JobReturned(k) => P = job.regions
              ELSE /\ Len(P) <= 1
                   /\ JobReturned(k) => P = <<params["main-region"]>>
    /\ (phase \in {"stackset", "mirror"} /\ pc \notin {"jobs", "separate", "done", "failed"}) =>
          IF jobs[index].separate_regions
          THEN /\ Len(frame.regions) = 1
               /\ frame.regions[1] = jobs[index].regions[Len(jobs[index].regions) - Len(queue)]
               /\ frame.main_region = frame.regions[1]
          ELSE /\ frame.regions = jobs[index].regions
               /\ frame.main_region = params["main-region"]

\* A stackset job with separate regions has gone through the stackset path once
\* for each of its two regions.
C21_Witness ==
    /\ index >= 1
    /\ jobs[index].account = AllSentinel
    /\ jobs[index].separate_regions
    /\ Len(jobs[index].regions) = 2
    /\ JobReturned(index)
    /\ StackSetProbes(index) = jobs[index].regions

\* The parameter table as the first job of a run sees it.
FirstJobParams ==
    [k \in {"main-region", "root-ou"} |-> IF k = "main-region" THEN "us-east-1" ELSE RootOu]

\* C22: no step of the orchestrator or of a controller adds, removes or changes
\* an entry of the parameter table: it is always the table the first job saw.
C22_ParamsAsFirstSeen == params = FirstJobParams

\* C23: every execute_change_set is preceded in its step, in this order and
\* with nothing in between, by the change-set computation request, the first
\* describe, the wait that returned on a change set that is CREATE_COMPLETE,
\* the second describe and the rendering of the diff.
C23_ExecuteOnlyAfterReady ==
    \A i \in 1..Len(trace) :
        trace[i].op = "execute_change_set" =>
            /\ i > 5
            /\ trace[i - 5].op = "create_change_set" /\ trace[i - 5].error = NoError
            /\ trace[i - 4].op = "describe_change_set" /\ trace[i - 4].error = NoError
            /\ trace[i - 3].op = "wait_change_set" /\ trace[i - 3].error = NoError
            /\ trace[i - 3].status = "CREATE_COMPLETE"
            /\ trace[i - 2].op = "describe_change_set" /\ trace[i - 2].error = NoError
            /\ trace[i - 2].status = "CREATE_COMPLETE"
            /\ trace[i - 1].op = "print_change_set"
            /\ \A j \in (i - 5)..i :
                 trace[j].account = trace[i].account /\ trace[j].region = trace[i].region

\* A change set was computed, waited on, rendered and executed.
C23_Witness ==
    /\ trace # <<>>
    /\ \E i \in 1..Len(trace) : trace[i].op = "execute_change_set" /\ trace[i].error = NoError
    /\ cs.status = "EXECUTE_COMPLETE"

\* The allow-list of an instance: that of an entity without ACTIVE.
InstanceAllowList == AllowList \ {"ACTIVE"}

InstancePoller == "monitor_stackset_stacks_until_complete"

C25_ChangeSetNamesUnique ==
    \A i, j \in ChangeSetRequests :
        (i # j /\ calls[i].account = calls[j].account /\ calls[i].region = calls[j].region)
            => calls[i].name # calls[j].name

\* A run of the static preview has parsed its template.
Previewed == pc = "print_template_resources"

\* The template is a JSON document; its top level is an object.
IsDocument == template.format = "json"
IsObjectDocument == IsDocument /\ template.doc.top = "object"

\* The members of the document's Resources section, none when it has none.
SectionMembers == IF template.doc.tag = "object" THEN template.doc.members ELSE <<>>

\* One entry per member of the Resources section, in document order, and nothing else.
OneEntryPerMember ==
    /\ resources.error = NoError
    /\ Len(resources.list) = Len(SectionMembers)
    /\ \A i \in 1..Len(SectionMembers) :
          /\ resources.list[i][1] = SectionMembers[i][1]
          /\ resources.list[i][2] = SectionMembers[i][2].Type

\* The Resources section is absent, or an object all of whose members are objects.
WellFormedSection ==
    /\ IsObjectDocument
    /\ template.doc.tag \in {"absent", "object"}
    /\ \A i \in 1..Len(SectionMembers) : SectionMembers[i][2].tag = "object"

\* C26 (as stated): for every template that parses as a tagged-object document
\* parse_template returns exactly one (logical name, declared type) entry per
\* member of its Resources section and nothing else.
C26_EveryDocumentYieldsEntries ==
    (Previewed /\ IsObjectDocument) => OneEntryPerMember

\* C26 (amended): a document is always handled by the structured parser and
\* any other text always by the line-oriented one; a document whose Resources
\* section is absent or holds only object members yields exactly one
\* (logical name, declared type) entry per member, in order, the type being
\* None for a member that declares none; every other document makes
\* parse_template raise AttributeError and return nothing.
C26_WellFormedDocumentYieldsEntries ==
    Previewed =>
        /\ IsDocument <=> resources.parser = "json"
        /\ ~IsDocument <=> resources.parser = "parse_yaml_template"
        /\ WellFormedSection => OneEntryPerMember
        /\ (IsDocument /\ ~WellFormedSection) =>
              (resources.error.cls = "AttributeError" /\ resources.list = <<>>)

C26_Witness ==
    /\ Previewed
    /\ WellFormedSection
    /\ Len(SectionMembers) = MaxMembers
    /\ \E i \in 1..Len(SectionMembers) : SectionMembers[i][2].Type = None
    /\ Len(resources.list) = MaxMembers

\* The Resources section of a text template, and the level of its i-th line:
\* its indentation in units of the first line's.
Section == resources_section(template.lines)
Level(i) == Section[i].spaces \div Section[1].spaces

\* Line i is a logical name (a level-1 key ending in ':'), a level-2 'Type:' line.
IsName(i) == Level(i) = 1 /\ EndsWith(Section[i].text, <<":">>)
IsType(i) == Level(i) = 2 /\ StartsWith(Section[i].text, <<"Type", ":">>)

\* The 'Type:' lines that follow the name at line i before the next name.
TypesOf(i) ==
    {j \in (i + 1)..Len(Section) : IsType(j) /\ \A k \in (i + 1)..j : ~IsName(k)}

Names == {i \in 1..Len(Section) : IsName(i)}
Emitting == {i \in Names : TypesOf(i) # {}}

ChangeSetEvents == {i \in 1..Len(trace) : trace[i].op = "create_change_set"}

\* Event j is the return of the single-stack poll for the stack of event i,
\* on an allow-list status, with only the client of process_stack between them.
QuiescentReadBefore(j, i) ==
    /\ j < i
    /\ trace[j].fn = "monitor_stack_until_complete"
    /\ trace[j].op = "poll"
    /\ trace[j].account = trace[i].account
    /\ trace[j].region = trace[i].region
    /\ trace[j].status \in AllowList
    /\ \A k \in (j + 1)..(i - 1) : trace[k].op = "assume_role"

\* C28: the change set of a present stack is requested only after the poll of
\* that stack has read an allow-list status, in a dry run as in any other; the
\* step's events up to there are the existence probe and that poll.
C28_ChangeSetOnlyWhenQuiescent ==
    \A i \in ChangeSetEvents :
        /\ \E j \in 1..Len(trace) : QuiescentReadBefore(j, i)
        /\ \A k \in 1..(i - 1) :
              trace[k].fn \in {"does_stack_exist", "monitor_stack_until_complete", "process_stack"}

\* A dry run requested a change set after its poll had to wait for the stack.
C28_Witness ==
    /\ dry_run
    /\ \E i \in ChangeSetEvents : \E j \in 1..Len(trace) :
          /\ QuiescentReadBefore(j, i)
          /\ trace[j].line = 757
          /\ trace[i].error = NoError

\* A single-entity poll is in progress, and the status of the entity it reads.
InSinglePoll == pc \in PollLoops \/ (pc \in FirstLoops /\ ~mon.dry)

PolledStatus ==
    IF pc \in {"ms_first", "ms_loop"} THEN stacks[<<mon.account, mon.region>>].status
    ELSE stacksets[mon.region]

\* The polled entity exists, so that reading its status is no error.
Readable == PolledStatus # "ABSENT"

\* The polled entity has settled for ever in a status outside the allow-list.
SettledOutside ==
    /\ InSinglePoll
    /\ Readable
    /\ PolledStatus \notin AllowList
    /\ StatusSucc(PolledStatus) = {PolledStatus}

ReturnedOnAllowList ==
    /\ PollReturned
    /\ Last(trace).status \in AllowList
    /\ stack_status = Last(trace).status

LateFailures ==
    {i \in 1..Len(trace) : trace[i].op = "wait_change_set" /\ trace[i].status = "FAILED"}

\* C30: when the describe issued right after the request shows a change set
\* that has not failed and the change set then fails during the readiness
\* wait, for lack of changes or otherwise, the waiter's error leaves the
\* controller: the run ends with a WaiterError, the step is not reported as
\* NoChanges and nothing, execute included, is called after the wait; and a
\* NoChanges read from a change set's status is read by that first describe.
C30_LateNoChangesPropagates ==
    /\ \A i \in LateFailures :
          /\ i = Len(trace)
          /\ i > 2
          /\ trace[i - 1].op = "describe_change_set"
          /\ trace[i - 1].line = 476
          /\ trace[i - 1].status \in {"CREATE_PENDING", "FAILED"}
          /\ IsNoChangesReport(cs) => trace[i - 1].status = "CREATE_PENDING"
          /\ trace[i - 2].op = "create_change_set"
          /\ pc = "failed"
          /\ err.cls = "WaiterError"
          /\ Last(results).outcome = "Failed"
          /\ \A j \in 1..Len(trace) : trace[j].op # "execute_change_set"
    /\ (/\ pc \in {"hs_region", "mirror_region"}
        /\ trace # <<>>
        /\ Last(results).outcome = "NoChanges"
        /\ Last(trace).op \in {"describe_change_set", "wait_change_set"}
        /\ Last(trace).error = NoError)
          => (Last(trace).line = 476 /\ Last(trace).status = "FAILED")

\* A change set that failed for lack of changes only during the wait.
C30_Witness ==
    /\ LateFailures # {}
    /\ cs.status = "FAILED"
    /\ IsNoChangesReport(cs)
    /\ err = ErrWaiterFailed

\* The change sets the run has had computed: the requests that were accepted.
ComputedChangeSets == {i \in ChangeSetRequests : calls[i].ok}

\* A dry-run step on an existing stack has rendered its change set and is
\* back at the head of the region loop.
DryRunPreviewed ==
    /\ dry_run
    /\ QuietStackStep
    /\ Last(trace).op = "print_change_set"

\* C31: in a dry run no change set is ever executed or deleted; a step that
\* finds the stack present and renders a diff has issued exactly one
\* change-set request, which was accepted and is left computed on the remote
\* side, and the accepted requests for one stack all carry different names, so
\* each of them is one more unexecuted change set there.
C31_DryRunLeavesChangeSet ==
    dry_run =>
        /\ \A i \in 1..Len(calls) :
              calls[i].op \notin {"execute_change_set", "delete_change_set"}
        /\ \A i, j \in ComputedChangeSets :
              (i # j /\ calls[i].account = calls[j].account /\ calls[i].region = calls[j].region)
                  => calls[i].name # calls[j].name
        /\ DryRunPreviewed =>
              /\ Count("create_change_set") = 1
              /\ \A i \in 1..Len(trace) :
                    trace[i].op = "create_change_set" => trace[i].error = NoError
              /\ cs.status = "CREATE_COMPLETE"
              /\ Last(results).outcome = "SkippedDryRun"
              /\ ComputedChangeSets # {}

\* A second dry run of the same stack has left a second change set.
C31_Witness ==
    /\ DryRunPreviewed
    /\ \E i, j \in ComputedChangeSets :
          /\ i < j
          /\ calls[i].account = calls[j].account
          /\ calls[i].region = calls[j].region
          /\ calls[i].name # calls[j].name

\* The events of the step in progress at which the instance poller returned
\* with a listing of no instances.
EmptyListings ==
    {i \in 1..Len(trace) :
        trace[i].fn = InstancePoller /\ trace[i].op = "poll" /\ trace[i].statuses = <<>>}

\* C32: a listing of zero instances ends the instance poller at its first
\* read: the poller is never in its loop with an empty listing, every return
\* with an empty listing is the return before the loop, made without sleeping,
\* and on the create path create_stack_instances is the call just before
\* that read, after which the controller is at the admin mirroring or beyond.
C32_EmptyListingReturnsAtOnce ==
    /\ pc = "msi_loop" => stack_statuses # <<>>
    /\ \A i \in EmptyListings : trace[i].line = 870
    /\ (EmptyListings # {} /\ Last(trace).fn = InstancePoller) =>
          /\ Len(trace) \in EmptyListings
          /\ pc \notin {"msi_first", "msi_loop"}
          /\ pc \in {"hss_mirror", "ps_update_stack_set"} => (slept = 0 /\ polls = 0)
          /\ (\E j \in 1..Len(trace) : trace[j].op = "create_stack_instances") =>
                /\ trace[Len(trace) - 1].op = "create_stack_instances"
                /\ trace[Len(trace) - 1].error = NoError

\* A stackset was created, its instances requested, and the controller went on
\* to the next job with no instance ever listed.
C32_Witness ==
    /\ ~dry_run
    /\ EmptyListings # {}
    /\ \E j \in 1..Len(trace) : trace[j].op = "create_stack_instances" /\ trace[j].error = NoError
    /\ instances[frame.main_region].list = <<>>
    /\ pc \in {"jobs", "done"}
    /\ results # <<>>
    /\ Last(results).outcome # "Failed"

\* The commands of process_sam in the run's history, and the other entries.
SamOps == {"git_pull", "sam_build", "sam_deploy"}
SamCommands == {i \in 1..Len(calls) : calls[i].op \in SamOps}
FailedCommands == {i \in SamCommands : ~calls[i].ok}

\* A command failure that process_sam does not recover from: any but a
\* failure of the first build, which is run again.
FatalCommands ==
    {i \in FailedCommands :
        ~(calls[i].op = "sam_build"
          /\ \A j \in SamCommands : (j < i) => calls[j].op = "git_pull")}

\* The sam deploy commands come one per region, in the order of sam_regions.
DeploysInRegionOrder ==
    LET D == SelectSeq(calls, LAMBDA c : c.op = "sam_deploy")
    IN  /\ Len(D) <= Len(sam_regions)
        /\ \A k \in 1..Len(D) : D[k].region = sam_regions[k]
        /\ \A k \in 1..(Len(D) - 1) : D[k].ok

\* C33: with a SAM section the run's history is the calls of the pre-SAM
\* jobs, then the commands of process_sam (git pull, the build, one deploy per
\* region in order), then the calls of the post-SAM jobs. A command that
\* fails, other than a first build that is run again, is the last command of
\* process_sam, so the remaining regions are not deployed; it leaves no error
\* behind, and the post-SAM jobs are taken up as after a successful SAM part.
C33_SamFailureIsContained ==
    /\ deploy_section = "pre-SAM" => SamCommands = {}
    /\ deploy_section = "SAM" =>
          /\ pc \in {"sam_git_pull", "sam_build", "sam_build_retry", "sam_deploy", "sam_return"}
          /\ err = NoError
          /\ \A i \in SamCommands : \A j \in (i + 1)..Len(calls) : j \in SamCommands
    /\ deploy_section = "post-SAM" =>
          /\ SamCommands # {}
          /\ \A i, j \in SamCommands : \A k \in i..j : k \in SamCommands
          /\ jobs = post_sam
    /\ DeploysInRegionOrder
    /\ \A i \in FatalCommands :
          /\ \A j \in SamCommands : j <= i
          /\ deploy_section \in {"SAM", "post-SAM"}
          /\ deploy_section = "SAM" => pc = "sam_return"
          /\ err.cls # "CalledProcessError"
    /\ \A i \in FailedCommands \ FatalCommands :
          pc = "sam_build_retry" \/ (i + 1 \in SamCommands /\ calls[i + 1].op = "sam_build")

\* The deploy of the first SAM region failed, the second region was skipped,
\* and a post-SAM job has since issued a call.
C33_Witness ==
    /\ deploy_section = "post-SAM"
    /\ \E i \in FatalCommands : calls[i].op = "sam_deploy" /\ calls[i].region = sam_regions[1]
    /\ \A i \in SamCommands : calls[i].op = "sam_deploy" => calls[i].region # sam_regions[2]
    /\ \E i \in 1..Len(calls) : i \notin SamCommands /\ \A j \in SamCommands : j < i
    /\ \E i \in 1..Len(calls) : i \notin SamCommands /\ \A j \in SamCommands : i < j
    /\ pc = "done"

\* The tags of the event in event order, a single tag object taken as a list
\* of one, and the positions of those whose key is configured.
EventTags == IF event.islist THEN event.Tag ELSE <<event.Tag>>
Configured == {i \in 1..Len(EventTags) : EventTags[i].Key \in TAGS}

\* The n-th configured tag of the event.
NthConfigured(n) ==
    CHOOSE i \in Configured : Cardinality({j \in Configured : j <= i}) = n

HandlerEnded == pc \in {"returned", "failed"}

\* The calls of create_incident made so far are those for the first
\* configured tags of the event, one each, in event order, with the event's id.
CallsFollowEvent ==
    /\ Len(incidents) <= Cardinality(Configured)
    /\ \A n \in 1..Len(incidents) :
          /\ incidents[n].tag = EventTags[NthConfigured(n)].Key
          /\ incidents[n].tag \in TAGS
          /\ incidents[n].finding.Id = event.id

\* C34 (as stated): when lambda_handler has ended, create_incident has been
\* called exactly once for each tag of the event whose key is in TAGS, in
\* event order, and for no other tag, every finding with the event's id.
C34_OncePerConfiguredTag ==
    HandlerEnded => (CallsFollowEvent /\ Len(incidents) = Cardinality(Configured))

\* C34 (amended): create_incident is called for the configured tags of the
\* event in event order, at most once each and never for another tag, every
\* finding with the event's id; exactly once each when lambda_handler returns;
\* and when a call raises, lambda_handler ends with it, the call that raised
\* being the last one made.
C34_OncePerConfiguredTagUnlessRaised ==
    /\ pc \in {"for_tag", "returned", "failed"} => CallsFollowEvent
    /\ pc = "returned" => Len(incidents) = Cardinality(Configured)
    /\ \A n \in 1..Len(incidents) :
          incidents[n].result = "raised" => (n = Len(incidents) /\ pc = "failed")
    /\ pc = "failed" => (incidents # <<>> /\ Last(incidents).result = "raised")

\* A single tag given as an object, configured, has produced its one incident.
C34_Witness ==
    /\ pc = "returned"
    /\ ~event.islist
    /\ Len(incidents) = 1
    /\ incidents[1].tag = event.Tag.Key
    /\ incidents[1].finding.Id = event.id

====
